---------------------------- MODULE Spec2Model ----------------------------
(***************************************************************************)
(* A model of the runtime Table subsystem (Lib/Runtime/Table.cpp): the     *)
(* biased element store, growTableImpl, createTable, the slot read and     *)
(* write paths, the bulk operations table.copy / table.fill / table.init,  *)
(* elem.drop and callIndirectFail.                                         *)
(*                                                                         *)
(* Guest and host threads are modelled as processes with a program         *)
(* counter; every atomic load, store and compare-exchange of the source is *)
(* one step.  Sizes that are 2^32 or 2^64 in the source are scaled down to *)
(* the bounds named below.                                                 *)
(***************************************************************************)
EXTENDS Integers, Sequences, FiniteSets, TLC

(***************************************************************************)
(* Bounds of the model.                                                    *)
(***************************************************************************)
\* Width of a scaled Uptr in bits: stored words are taken modulo 2^PtrBits.
PtrBits == 4
\* Scaled number of elements of a table's reservation (2^32 in the source).
ReservedElems == 4
\* Scaled log2 of the platform page size in bytes.
PageSizeLog2 == 4
\* Capacity of the resource quota's table-element counter.
QuotaMax == 4
\* Largest number of elements a single grow call is given.
MaxDelta == 2
\* Largest minimum size of a created table's type.
MaxMin == 2

\* sizeof(Table::Element): one atomic Uptr.
ElementBytes == 8

PtrMod == 2 ^ PtrBits

Threads == {"t1", "t2"}
Tables == {1, 2}
\* The compartments: createTable is called for the first, cloneTable's
\* newCompartment is any of them.
Compartments == {1, 2}
NoThread == "none"

(***************************************************************************)
(* Objects, addresses and the biased encoding.                             *)
(***************************************************************************)
\* References the model passes around.  "null" is the null pointer, "OOB"
\* and "UNINIT" are the two dummy functions, F1 and F2 are guest functions.
Functions == {"F1", "F2"}
Objects == {"null", "OOB", "UNINIT"} \cup Functions
\* What the API hands in and out: a function or null.
References == {"null"} \cup Functions

\* reinterpret_cast<Uptr>(object): the heap address of each object.  The
\* out-of-bounds sentinel does not have the lowest address, so that the
\* biased encoding wraps for some objects.
AddressOf(object) ==
    CASE object = "null" -> 0
      [] object = "F1" -> 2
      [] object = "OOB" -> 5
      [] object = "UNINIT" -> 9
      [] object = "F2" -> 12

\* reinterpret_cast<Object*>(address); an address that is no object's is "wild".
ObjectAt(address) ==
    IF \E o \in Objects : AddressOf(o) = address
    THEN CHOOSE o \in Objects : AddressOf(o) = address
    ELSE "wild"

getOutOfBoundsElement == "OOB"

getUninitializedElement == "UNINIT"

objectToBiasedTableElementValue(object) ==
    (AddressOf(object) - AddressOf(getOutOfBoundsElement)) % PtrMod

biasedTableElementValueToObject(biasedValue) ==
    ObjectAt((biasedValue + AddressOf(getOutOfBoundsElement)) % PtrMod)

Words == 0 .. (PtrMod - 1)

\* IR::maxTableElems: one less than the number of reserved elements.
maxTableElems == ReservedElems - 1

getNumPlatformPages(numBytes) ==
    (numBytes + (2 ^ PageSizeLog2) - 1) \div (2 ^ PageSizeLog2)

\* The platform page that holds element index.
PageOfElement(index) == (index * ElementBytes) \div (2 ^ PageSizeLog2)

branchlessMin(a, b) == IF a < b THEN a ELSE b

(***************************************************************************)
(* State.                                                                  *)
(***************************************************************************)
VARIABLES
    \* the global registry: static std::vector<Table*> tables
    tables,
    \* static Platform::Mutex tablesMutex: the thread that holds it
    tablesMutex,
    \* per compartment: Compartment::mutex, the thread that holds it
    compartmentMutex,
    \* per table object: "none" (not constructed), "alive", "deleted"
    tableState,
    \* Table::type.size: [min, max]
    tableType,
    \* Table::id, NoId for UINTPTR_MAX
    tableId,
    \* Table::compartment
    tableCompartment,
    \* Table::elements as a pointer: "null", "reserved" or "released"
    reservation,
    \* Table::numReservedBytes, in elements (numReservedElements)
    numReservedElements,
    \* Table::numElements
    numElements,
    \* the raw words of the reservation
    elements,
    \* the platform pages of the reservation that are committed
    committedPages,
    \* Table::resizingMutex: the owning thread or NoThread
    resizingMutex,
    \* whether Table::resourceQuota is set
    hasQuota,
    \* resourceQuota->tableElems: the elements currently charged
    quotaCurrent,
    \* Compartment::tables of each compartment: id -> table, 0 for a free id
    compartmentTables,
    \* ModuleInstance::elemSegments: for each segment <<vector>> while the
    \* shared_ptr is set and <<>> once it has been reset
    elemSegments,
    \* ModuleInstance::elemSegmentsMutex
    elemSegmentsMutex,
    \* per thread: position, arguments, locals, result
    pc, call, loc, ret,
    \* per thread, history: the state when the current call began and the
    \* slot writes the current call has performed
    pre, writes,
    \* history: per slot, the reference given by the latest write through
    \* setTableElementNonNull or grow's initialization ("none" before any)
    latest,
    \* per thread, history: the call the thread returned from last, with the
    \* state in which it began and its result
    prev,
    \* a DenseStaticIntSet template instance with two sets of it, and the
    \* sets of integers they stand for
    intSet,
    \* a call of parseDecimalUnsignedInt or parseHexUnsignedInt: its
    \* maxValue, its position in the literal, its result so far
    parse

vars == <<tables, tablesMutex, compartmentMutex, tableState, tableType, tableId, tableCompartment,
          reservation, numReservedElements, numElements, elements, committedPages,
          resizingMutex, hasQuota, quotaCurrent, compartmentTables,
          elemSegments, elemSegmentsMutex, pc, call, loc, ret, pre, writes,
          latest, prev, intSet, parse>>

\* The variables of the utility code, which the operations on tables leave
\* alone.
pureVars == <<intSet, parse>>

tableVars == <<tables, tablesMutex, compartmentMutex, tableState, tableType,
               tableId, tableCompartment, reservation, numReservedElements,
               compartmentTables, hasQuota>>

segVars == <<elemSegments, elemSegmentsMutex>>

NoId == -1
Slots == 0 .. (ReservedElems - 1)
\* Indices a caller may pass: one past the reservation is included.
Indices == 0 .. ReservedElems

NoCall == [op |-> "none"]
NoLoc == [table |-> 0, index |-> 0, object |-> "null", oldBiasedValue |-> 0,
          k |-> 0, n |-> 0, oldNumElements |-> 0, elemVector |-> <<>>]
NoRet == [kind |-> "none", object |-> "null", num |-> 0]
NoPre == [numElements |-> <<>>, elements |-> <<>>, quota |-> 0,
          elemSegments |-> <<>>]
NoPrev == [call |-> NoCall, pre |-> NoPre, ret |-> NoRet]

Snapshot == [numElements |-> numElements, elements |-> elements,
             quota |-> quotaCurrent, elemSegments |-> elemSegments]

\* The tables a call can be made on: created, in a compartment, and not
\* handed to the collector (an object is deleted once nothing refers to it).
LiveTables ==
    {T \in Tables :
       /\ tableState[T] = "alive"
       /\ tableId[T] # NoId
       /\ \A t \in Threads : call[t].op = "delete" => call[t].table # T}

\* Whether an access of slot index touches a page that is not committed:
\* the access faults and unwindSignalsAsExceptions turns the signal into an
\* outOfBoundsTableAccess exception.
Faults(T, index) == PageOfElement(index) \notin committedPages[T]

\* Null <-> UNINITIALIZED at the API boundary.
AsReference(object) == IF object = getUninitializedElement THEN "null" ELSE object

Result(kind, object, num) == [kind |-> kind, object |-> object, num |-> num]

(***************************************************************************)
(* Steps shared by every operation.                                        *)
(***************************************************************************)
\* The operation of thread t ends with result r.
Done(t, r) ==
    /\ pc' = [pc EXCEPT ![t] = "done"]
    /\ ret' = [ret EXCEPT ![t] = r]

\* The caller takes the result and is ready for its next call.
return(t) ==
    /\ pc[t] = "done"
    /\ pc' = [pc EXCEPT ![t] = "idle"]
    /\ call' = [call EXCEPT ![t] = NoCall]
    /\ loc' = [loc EXCEPT ![t] = NoLoc]
    /\ ret' = [ret EXCEPT ![t] = NoRet]
    /\ pre' = [pre EXCEPT ![t] = NoPre]
    /\ writes' = [writes EXCEPT ![t] = <<>>]
    /\ UNCHANGED <<pureVars, tableVars, segVars, numElements, elements, committedPages,
                   resizingMutex, quotaCurrent, latest>>

\* The same step, with no history kept of the call that returns.
Return(t) ==
    /\ return(t)
    /\ prev' = [prev EXCEPT ![t] = NoPrev]

\* The same step, with the call that returns kept as history.
ReturnObserved(t) ==
    /\ return(t)
    /\ prev' = [prev EXCEPT ![t] =
                  [call |-> call[t], pre |-> pre[t], ret |-> ret[t]]]

(***************************************************************************)
(* getTableElementNonNull / Runtime::getTableElement / table.get.          *)
(***************************************************************************)
\* getTableElementNonNull without its test for the out-of-bounds sentinel.
getTableElementNonNull_noSentinelTest(T, index) ==
    IF index >= numReservedElements[T]
    THEN Result("outOfBoundsTableAccess", "null", index)
    ELSE LET saturatedIndex == branchlessMin(index, numReservedElements[T] - 1)
         IN  IF Faults(T, saturatedIndex)
             THEN Result("outOfBoundsTableAccess", "null", index)
             ELSE Result("ok", biasedTableElementValueToObject(
                                   elements[T][saturatedIndex]), index)

\* What getTableElementNonNull(table, index) does in the current state: the
\* exception it throws or the object it returns.
getTableElementNonNull(T, index) ==
    IF index >= numReservedElements[T]
    THEN Result("outOfBoundsTableAccess", "null", index)
    ELSE LET saturatedIndex == branchlessMin(index, numReservedElements[T] - 1)
         IN  IF Faults(T, saturatedIndex)
             THEN Result("outOfBoundsTableAccess", "null", index)
             ELSE LET object == biasedTableElementValueToObject(
                                    elements[T][saturatedIndex])
                  IN  IF object = getOutOfBoundsElement
                      THEN Result("outOfBoundsTableAccess", "null", index)
                      ELSE Result("ok", object, index)

\* Runtime::getTableElement: the uninitialized sentinel is returned as null.
getTableElement(T, index) ==
    LET r == getTableElementNonNull(T, index)
    IN  IF r.kind = "ok" THEN Result("ok", AsReference(r.object), index) ELSE r

\* The results a call of Runtime::getTableElement can have: wavmAssert(object)
\* fails on a slot that decodes to the null pointer in a build that keeps
\* assertions, and is skipped in one that does not.
GetOutcomes(T, index) ==
    LET r == getTableElementNonNull(T, index)
    IN  IF r.kind = "ok" /\ r.object = "null"
        THEN {getTableElement(T, index), Result("assertFailed", "null", index)}
        ELSE {getTableElement(T, index)}

\* table.get / Runtime::getTableElement as one step: the slot is read by a
\* single acquire load.
GetTableElement(t, T, index) ==
    /\ pc[t] = "idle"
    /\ T \in LiveTables
    /\ call' = [call EXCEPT ![t] = [op |-> "get", table |-> T, index |-> index]]
    /\ \E r \in GetOutcomes(T, index) : Done(t, r)
    /\ UNCHANGED <<pureVars, tableVars, segVars, prev, numElements, elements, committedPages,
                   resizingMutex, quotaCurrent, loc, pre, writes, latest>>

\* table.size / Runtime::getTableNumElements.
GetTableNumElements(t, T) ==
    /\ pc[t] = "idle"
    /\ T \in LiveTables
    /\ call' = [call EXCEPT ![t] = [op |-> "size", table |-> T]]
    /\ Done(t, Result("ok", "null", numElements[T]))
    /\ UNCHANGED <<pureVars, tableVars, segVars, prev, numElements, elements, committedPages,
                   resizingMutex, quotaCurrent, loc, pre, writes, latest>>

(***************************************************************************)
(* setTableElementNonNull and what follows it in each caller.              *)
(***************************************************************************)
\* table.fill writing its first slot again and again.
fillElementIndex_first(destOffset, index) == destOffset

\* The slot that turn index of the loop of table.fill writes.
fillElementIndex(destOffset, index) == destOffset + index

\* The state of thread t after its setTableElementNonNull returned
\* oldObject: setTableElement returns, the loops of table.fill, table.copy
\* and initElemSegment go on with their next element.
AfterSet(t, oldObject) ==
    LET c == call[t]
        l == loc[t]
    IN  CASE c.op = "set" ->
               /\ Done(t, Result("ok", AsReference(oldObject), c.index))
               /\ loc' = loc
          [] c.op = "fill" ->
               IF l.k + 1 < c.numElements
               THEN /\ pc' = [pc EXCEPT ![t] = "set_load"]
                    /\ loc' = [loc EXCEPT ![t].k = l.k + 1,
                                          ![t].index =
                                             fillElementIndex(c.destOffset,
                                                              l.k + 1)]
                    /\ ret' = ret
               ELSE /\ Done(t, Result("ok", "null", 0))
                    /\ loc' = loc
          [] c.op = "copy" ->
               /\ pc' = [pc EXCEPT ![t] = "copy_get"]
               /\ loc' = [loc EXCEPT ![t].k = l.k + 1]
               /\ ret' = ret
          [] c.op = "init" ->
               /\ pc' = [pc EXCEPT ![t] = "init_elem"]
               /\ loc' = [loc EXCEPT ![t].k = l.k + 1]
               /\ ret' = ret

\* setTableElementNonNull up to its first load of the slot: the bounds check
\* against numReservedElements and the load of oldBiasedValue.
SetLoad(t) ==
    /\ pc[t] = "set_load"
    /\ LET T == loc[t].table
           index == loc[t].index
           saturatedIndex == branchlessMin(index, numReservedElements[T] - 1)
       IN  IF index >= numReservedElements[T] \/ Faults(T, saturatedIndex)
           THEN /\ Done(t, Result("outOfBoundsTableAccess", "null", index))
                /\ loc' = loc
           ELSE /\ pc' = [pc EXCEPT ![t] = "set_cas"]
                /\ loc' = [loc EXCEPT ![t].oldBiasedValue =
                                          elements[T][saturatedIndex]]
                /\ ret' = ret
    /\ UNCHANGED <<pureVars, tableVars, segVars, prev, numElements, elements, committedPages,
                   resizingMutex, quotaCurrent, call, pre, writes, latest>>

\* The loop of setTableElementNonNull without its test for the sentinel.
isOutOfBoundsValue_never(oldBiasedValue) == FALSE

\* The test of the loop of setTableElementNonNull on the word last seen:
\* whether it decodes to the out-of-bounds sentinel.
isOutOfBoundsValue(oldBiasedValue) ==
    biasedTableElementValueToObject(oldBiasedValue) = getOutOfBoundsElement

\* The loop of setTableElementNonNull leaving after a failed exchange as
\* after a successful one: the call returns without having stored its value.
SetCompareExchange_noRetry(t) ==
    /\ pc[t] = "set_cas"
    /\ LET T == loc[t].table
           index == loc[t].index
           saturatedIndex == branchlessMin(index, numReservedElements[T] - 1)
           biasedValue == objectToBiasedTableElementValue(loc[t].object)
           oldBiasedValue == loc[t].oldBiasedValue
       IN  IF isOutOfBoundsValue(oldBiasedValue)
           THEN /\ Done(t, Result("outOfBoundsTableAccess", "null", index))
                /\ UNCHANGED <<elements, loc, writes, latest>>
           ELSE /\ elements' =
                     IF elements[T][saturatedIndex] = oldBiasedValue
                     THEN [elements EXCEPT ![T][saturatedIndex] = biasedValue]
                     ELSE elements
                /\ writes' = [writes EXCEPT ![t] =
                                Append(@, <<T, saturatedIndex, biasedValue>>)]
                /\ latest' = [latest EXCEPT ![T][index] =
                                AsReference(loc[t].object)]
                /\ AfterSet(t, biasedTableElementValueToObject(oldBiasedValue))
    /\ UNCHANGED <<pureVars, tableVars, segVars, prev, numElements, committedPages,
                   resizingMutex, quotaCurrent, call, pre>>

\* One turn of the loop of setTableElementNonNull: the out-of-bounds test on
\* the word last seen and the compare-exchange.  A failed exchange leaves the
\* current word in oldBiasedValue and the loop turns again.
SetCompareExchange(t) ==
    /\ pc[t] = "set_cas"
    /\ LET T == loc[t].table
           index == loc[t].index
           saturatedIndex == branchlessMin(index, numReservedElements[T] - 1)
           biasedValue == objectToBiasedTableElementValue(loc[t].object)
           oldBiasedValue == loc[t].oldBiasedValue
       IN  IF isOutOfBoundsValue(oldBiasedValue)
           THEN /\ Done(t, Result("outOfBoundsTableAccess", "null", index))
                /\ UNCHANGED <<elements, loc, writes, latest>>
           ELSE IF elements[T][saturatedIndex] = oldBiasedValue
           THEN /\ elements' = [elements EXCEPT ![T][saturatedIndex] = biasedValue]
                /\ writes' = [writes EXCEPT ![t] =
                                Append(@, <<T, saturatedIndex, biasedValue>>)]
                /\ latest' = [latest EXCEPT ![T][index] =
                                AsReference(loc[t].object)]
                /\ AfterSet(t, biasedTableElementValueToObject(oldBiasedValue))
           ELSE /\ loc' = [loc EXCEPT ![t].oldBiasedValue =
                                          elements[T][saturatedIndex]]
                /\ UNCHANGED <<elements, pc, ret, writes, latest>>
    /\ UNCHANGED <<pureVars, tableVars, segVars, prev, numElements, committedPages,
                   resizingMutex, quotaCurrent, call, pre>>

\* setTableElement writing the new value as it is.
setTableElementValue_keepsNull(newValue) == newValue

\* If the new value is null, write the uninitialized sentinel value instead.
setTableElementValue(newValue) ==
    IF newValue = "null" THEN getUninitializedElement ELSE newValue

\* Runtime::setTableElement / table.set: null is replaced by the
\* uninitialized sentinel before the write.
SetTableElement(t, T, index, newValue) ==
    /\ pc[t] = "idle"
    /\ T \in LiveTables
    /\ call' = [call EXCEPT ![t] = [op |-> "set", table |-> T,
                                    index |-> index, newValue |-> newValue]]
    /\ loc' = [loc EXCEPT ![t] =
                 [NoLoc EXCEPT !.table = T, !.index = index,
                               !.object = setTableElementValue(newValue)]]
    /\ pc' = [pc EXCEPT ![t] = "set_load"]
    /\ UNCHANGED <<pureVars, tableVars, segVars, prev, numElements, elements, committedPages,
                   resizingMutex, quotaCurrent, ret, pre, writes, latest>>

(***************************************************************************)
(* table.copy and table.fill.                                              *)
(***************************************************************************)
\* table.copy always going through the elements in ascending order.
copyElementOffset_ascending(sourceOffset, destOffset, numElems, index) ==
    index

\* The offset, within both ranges, of the element that turn index of the
\* loop of table.copy copies: descending when copying to higher indices.
copyElementOffset(sourceOffset, destOffset, numElems, index) ==
    IF sourceOffset < destOffset THEN numElems - index - 1 ELSE index

\* A call of table.copy.
tableCopy(t, destOffset, sourceOffset, numElems, sourceTable, destTable) ==
    /\ pc[t] = "idle"
    /\ sourceTable \in LiveTables
    /\ destTable \in LiveTables
    /\ call' = [call EXCEPT ![t] =
                  [op |-> "copy", destOffset |-> destOffset,
                   sourceOffset |-> sourceOffset, numElements |-> numElems,
                   sourceTable |-> sourceTable, destTable |-> destTable]]
    /\ loc' = [loc EXCEPT ![t] = [NoLoc EXCEPT !.table = destTable]]
    /\ pc' = [pc EXCEPT ![t] = "copy_get"]
    /\ UNCHANGED <<pureVars, tableVars, segVars, prev, numElements, elements,
                   committedPages, resizingMutex, quotaCurrent, ret, writes,
                   latest>>

TableCopy(t, destOffset, sourceOffset, numElems, sourceTable, destTable) ==
    /\ tableCopy(t, destOffset, sourceOffset, numElems, sourceTable, destTable)
    /\ UNCHANGED pre

\* The same call, with the state in which it begins kept as history.
TableCopyObserved(t, destOffset, sourceOffset, numElems, sourceTable, destTable) ==
    /\ tableCopy(t, destOffset, sourceOffset, numElems, sourceTable, destTable)
    /\ pre' = [pre EXCEPT ![t] = Snapshot]

\* One turn of the loop of table.copy up to its write: the loop test and
\* getTableElementNonNull on the source element, which raises
\* outOfBoundsTableAccess or yields the object for setTableElementNonNull.
CopyGet(t) ==
    /\ pc[t] = "copy_get"
    /\ LET c == call[t]
           offset == copyElementOffset(c.sourceOffset, c.destOffset,
                                       c.numElements, loc[t].k)
           r == getTableElementNonNull(c.sourceTable, c.sourceOffset + offset)
       IN  IF loc[t].k >= c.numElements
           THEN /\ Done(t, Result("ok", "null", 0))
                /\ loc' = loc
           ELSE IF r.kind # "ok"
           THEN /\ Done(t, r)
                /\ loc' = loc
           ELSE /\ pc' = [pc EXCEPT ![t] = "set_load"]
                /\ loc' = [loc EXCEPT ![t].index = c.destOffset + offset,
                                      ![t].object = r.object]
                /\ ret' = ret
    /\ UNCHANGED <<pureVars, tableVars, segVars, prev, numElements, elements,
                   committedPages, resizingMutex, quotaCurrent, call, pre,
                   writes, latest>>

\* A call of table.fill: a null value is replaced by the uninitialized
\* sentinel; with no element to write the call returns at once.
tableFill(t, destOffset, value, numElems, destTable) ==
    /\ pc[t] = "idle"
    /\ destTable \in LiveTables
    /\ call' = [call EXCEPT ![t] =
                  [op |-> "fill", destOffset |-> destOffset, value |-> value,
                   numElements |-> numElems, destTable |-> destTable]]
    /\ loc' = [loc EXCEPT ![t] =
                 [NoLoc EXCEPT !.table = destTable,
                               !.index = fillElementIndex(destOffset, 0),
                               !.object = IF value = "null"
                                          THEN getUninitializedElement
                                          ELSE value]]
    /\ IF numElems = 0
       THEN Done(t, Result("ok", "null", 0))
       ELSE /\ pc' = [pc EXCEPT ![t] = "set_load"]
            /\ ret' = ret
    /\ UNCHANGED <<pureVars, tableVars, segVars, prev, numElements, elements,
                   committedPages, resizingMutex, quotaCurrent, writes, latest>>

TableFill(t, destOffset, value, numElems, destTable) ==
    /\ tableFill(t, destOffset, value, numElems, destTable)
    /\ UNCHANGED pre

\* The same call, with the state in which it begins kept as history.
TableFillObserved(t, destOffset, value, numElems, destTable) ==
    /\ tableFill(t, destOffset, value, numElems, destTable)
    /\ pre' = [pre EXCEPT ![t] = Snapshot]

(***************************************************************************)
(* Element segments: table.init, initElemSegment and elem.drop.            *)
(***************************************************************************)
\* The module instance of the model has one element segment, of a function
\* and a null, and two functions.
ElemSegmentIndices == {0}
ElemVector == <<[type |-> "ref_func", index |-> 1],
                [type |-> "ref_null", index |-> 0]>>
moduleFunctions == [index \in {0, 1} |-> IF index = 0 THEN "F1" ELSE "F2"]

\* The object an element of a segment stands for.
elemObject(elem) ==
    IF elem.type = "ref_null" THEN "null" ELSE moduleFunctions[elem.index]

\* initElemSegment reading the module's segment anew at every element, so
\* that it sees a segment dropped meanwhile as one without elements.
elemVector_shared(t) ==
    IF elemSegments[call[t].elemSegmentIndex] = <<>>
    THEN <<>>
    ELSE elemSegments[call[t].elemSegmentIndex][1]

\* The vector initElemSegment reads: the one table.init made its own copy
\* of the shared_ptr to.
elemVector(t) == loc[t].elemVector

\* initElemSegment refusing the last element of the segment as well.
sourceIndexOutOfBounds_early(sourceIndex, sourceOffset, size) ==
    sourceIndex + 1 >= size \/ sourceIndex < sourceOffset

\* The test initElemSegment makes of each source index before it reads the
\* element: beyond the vector, or wrapped around below the source offset.
sourceIndexOutOfBounds(sourceIndex, sourceOffset, size) ==
    sourceIndex >= size \/ sourceIndex < sourceOffset

\* A call of table.init up to where it holds elemSegmentsMutex.
tableInit(t, destIndex, sourceIndex, numElems, T, elemSegmentIndex) ==
    /\ pc[t] = "idle"
    /\ T \in LiveTables
    /\ elemSegmentsMutex = NoThread
    /\ elemSegmentsMutex' = t
    /\ call' = [call EXCEPT ![t] =
                  [op |-> "init", destOffset |-> destIndex,
                   sourceOffset |-> sourceIndex, numElements |-> numElems,
                   table |-> T, elemSegmentIndex |-> elemSegmentIndex]]
    /\ loc' = [loc EXCEPT ![t] = [NoLoc EXCEPT !.table = T]]
    /\ pc' = [pc EXCEPT ![t] = "init_locked"]
    /\ UNCHANGED <<pureVars, tableVars, elemSegments, prev, numElements, elements,
                   committedPages, resizingMutex, quotaCurrent, ret, writes,
                   latest>>

TableInit(t, destIndex, sourceIndex, numElems, T, elemSegmentIndex) ==
    /\ tableInit(t, destIndex, sourceIndex, numElems, T, elemSegmentIndex)
    /\ UNCHANGED pre

\* The same call, with the state in which it begins kept as history.
TableInitObserved(t, destIndex, sourceIndex, numElems, T, elemSegmentIndex) ==
    /\ tableInit(t, destIndex, sourceIndex, numElems, T, elemSegmentIndex)
    /\ pre' = [pre EXCEPT ![t] = Snapshot]

\* table.init going on to initElemSegment with elemSegmentsMutex held.
elemSegmentsUnlock_keeps(t) == elemSegmentsMutex

\* elemSegmentsLock.unlock(), or the end of the scope of elemSegmentsLock
\* when the exception is thrown.
elemSegmentsUnlock(t) == NoThread

\* table.init under the mutex: a dropped segment raises invalidArgument;
\* otherwise the shared_ptr is copied.  Both ways the mutex is released.
InitCapture(t) ==
    /\ pc[t] = "init_locked"
    /\ elemSegmentsMutex' = elemSegmentsUnlock(t)
    /\ IF elemSegments[call[t].elemSegmentIndex] = <<>>
       THEN /\ Done(t, Result("invalidArgument", "null", 0))
            /\ loc' = loc
       ELSE /\ loc' = [loc EXCEPT ![t].elemVector =
                                     elemSegments[call[t].elemSegmentIndex][1]]
            /\ pc' = [pc EXCEPT ![t] = "init_elem"]
            /\ ret' = ret
    /\ UNCHANGED <<pureVars, tableVars, elemSegments, prev, numElements, elements,
                   committedPages, resizingMutex, quotaCurrent, call, pre,
                   writes, latest>>

\* One turn of the loop of initElemSegment up to its write: the loop test,
\* the test of the source index, and the element's object, which
\* setTableElement writes with null replaced by the uninitialized sentinel.
InitElem(t) ==
    /\ pc[t] = "init_elem"
    /\ LET c == call[t]
           index == loc[t].k
           sourceIndex == c.sourceOffset + index
           destIndex == c.destOffset + index
       IN  IF index >= c.numElements
           THEN /\ Done(t, Result("ok", "null", 0))
                /\ loc' = loc
           ELSE IF sourceIndexOutOfBounds(sourceIndex, c.sourceOffset,
                                          Len(elemVector(t)))
           THEN /\ Done(t, Result("outOfBoundsElemSegmentAccess", "null",
                                  sourceIndex))
                /\ loc' = loc
           ELSE /\ pc' = [pc EXCEPT ![t] = "set_load"]
                /\ loc' = [loc EXCEPT
                             ![t].index = destIndex,
                             ![t].object =
                                setTableElementValue(
                                   elemObject(elemVector(t)[sourceIndex + 1]))]
                /\ ret' = ret
    /\ UNCHANGED <<pureVars, tableVars, segVars, prev, numElements, elements,
                   committedPages, resizingMutex, quotaCurrent, call, pre,
                   writes, latest>>

\* A call of elem.drop up to where it holds elemSegmentsMutex.
elemDrop(t, elemSegmentIndex) ==
    /\ pc[t] = "idle"
    /\ elemSegmentsMutex = NoThread
    /\ elemSegmentsMutex' = t
    /\ call' = [call EXCEPT ![t] =
                  [op |-> "drop", elemSegmentIndex |-> elemSegmentIndex]]
    /\ pc' = [pc EXCEPT ![t] = "drop_locked"]
    /\ UNCHANGED <<pureVars, tableVars, elemSegments, prev, numElements, elements,
                   committedPages, resizingMutex, quotaCurrent, loc, ret,
                   writes, latest>>

ElemDrop(t, elemSegmentIndex) ==
    /\ elemDrop(t, elemSegmentIndex)
    /\ UNCHANGED pre

\* The same call, with the state in which it begins kept as history.
ElemDropObserved(t, elemSegmentIndex) ==
    /\ elemDrop(t, elemSegmentIndex)
    /\ pre' = [pre EXCEPT ![t] = Snapshot]

\* elem.drop leaving the shared_ptr of a set segment as it is.
DropReset_noReset(t) ==
    /\ pc[t] = "drop_locked"
    /\ elemSegmentsMutex' = elemSegmentsUnlock(t)
    /\ IF elemSegments[call[t].elemSegmentIndex] = <<>>
       THEN Done(t, Result("invalidArgument", "null", 0))
       ELSE Done(t, Result("ok", "null", 0))
    /\ UNCHANGED <<pureVars, tableVars, elemSegments, prev, numElements, elements,
                   committedPages, resizingMutex, quotaCurrent, call, loc,
                   pre, writes, latest>>

\* elem.drop under the mutex: a dropped segment raises invalidArgument;
\* otherwise the shared_ptr is reset.  Both ways the mutex is released.
DropReset(t) ==
    /\ pc[t] = "drop_locked"
    /\ elemSegmentsMutex' = elemSegmentsUnlock(t)
    /\ IF elemSegments[call[t].elemSegmentIndex] = <<>>
       THEN /\ Done(t, Result("invalidArgument", "null", 0))
            /\ UNCHANGED elemSegments
       ELSE /\ elemSegments' =
                  [elemSegments EXCEPT ![call[t].elemSegmentIndex] = <<>>]
            /\ Done(t, Result("ok", "null", 0))
    /\ UNCHANGED <<pureVars, tableVars, prev, numElements, elements, committedPages,
                   resizingMutex, quotaCurrent, call, loc, pre, writes,
                   latest>>

(***************************************************************************)
(* The resource quota (ResourceQuota::tableElems).                         *)
(***************************************************************************)
\* tableElems.allocate(n) succeeds when the charge fits the quota.
QuotaAllows(T, n) == hasQuota[T] => quotaCurrent + n <= QuotaMax

QuotaAllocate(T, n) == IF hasQuota[T] THEN quotaCurrent + n ELSE quotaCurrent

QuotaFree(T, n) == IF hasQuota[T] THEN quotaCurrent - n ELSE quotaCurrent

(***************************************************************************)
(* Table::~Table, run by "delete table".                                   *)
(***************************************************************************)
\* delete table: the destructor starts.
StartDelete(t) == pc' = [pc EXCEPT ![t] = "dtor_compartment"]

\* if(id != UINTPTR_MAX): leave the compartment's map and clear tableBases.
DtorCompartment(t) ==
    /\ pc[t] = "dtor_compartment"
    /\ LET T == loc[t].table
       IN  compartmentTables' =
             IF tableId[T] # NoId
             THEN [compartmentTables EXCEPT
                     ![tableCompartment[T]][tableId[T]] = 0]
             ELSE compartmentTables
    /\ pc' = [pc EXCEPT ![t] = "dtor_registry"]
    /\ UNCHANGED <<pureVars, compartmentMutex, tables, tablesMutex, tableState, tableType, tableId, tableCompartment,
                   reservation, numReservedElements, hasQuota, segVars, prev,
                   numElements, elements, committedPages, resizingMutex,
                   quotaCurrent, call, loc, ret, pre, writes, latest>>

\* The destructor leaving the table in the global array.
tablesWithout_keeps(T) == tables

\* The global array after the loop of ~Table: the first entry that is this
\* table is erased.
tablesWithout(T) ==
    LET hits == {i \in 1 .. Len(tables) : tables[i] = T}
    IN  IF hits = {}
        THEN tables
        ELSE LET first == CHOOSE i \in hits : \A j \in hits : i <= j
             IN  SubSeq(tables, 1, first - 1)
                   \o SubSeq(tables, first + 1, Len(tables))

\* A scope of tablesLock that ends with the mutex still held.
tablesUnlock_keeps(t) == tablesMutex

\* The end of the scope of tablesLock: the mutex is given up.
tablesUnlock(t) == NoThread

\* Lock<Platform::Mutex> tablesLock(tablesMutex), in createTableImpl, in
\* ~Table and in isAddressOwnedByTable: the thread waits until the mutex is
\* free and takes it.
TablesLock(t) ==
    /\ pc[t] \in {"create_lock", "dtor_registry", "owned_lock"}
    /\ tablesMutex = NoThread
    /\ tablesMutex' = t
    /\ pc' = [pc EXCEPT ![t] =
                CASE pc[t] = "create_lock" -> "create_register"
                  [] pc[t] = "dtor_registry" -> "dtor_erase"
                  [] OTHER -> "owned_scan"]
    /\ UNCHANGED <<pureVars, compartmentMutex, tables, tableState, tableType, tableId, tableCompartment,
                   reservation, numReservedElements, compartmentTables,
                   hasQuota, segVars, prev, numElements, elements,
                   committedPages, resizingMutex, quotaCurrent, call, loc,
                   ret, pre, writes, latest>>

\* Remove the table from the global array, under tablesMutex, and leave the
\* scope of the lock.
DtorRegistry(t) ==
    /\ pc[t] = "dtor_erase"
    /\ tables' = tablesWithout(loc[t].table)
    /\ tablesMutex' = tablesUnlock(t)
    /\ pc' = [pc EXCEPT ![t] = "dtor_free"]
    /\ UNCHANGED <<pureVars, compartmentMutex, tableState, tableType, tableId, tableCompartment, reservation,
                   numReservedElements, compartmentTables, hasQuota, segVars, prev,
                   numElements, elements, committedPages, resizingMutex,
                   quotaCurrent, call, loc, ret, pre, writes, latest>>

\* if(numReservedBytes > 0) freeVirtualPages(elements, ...): the release is
\* issued for whatever the elements pointer holds, a null pointer included.
DtorFree(t) ==
    /\ pc[t] = "dtor_free"
    /\ LET T == loc[t].table
       IN  reservation' =
             IF numReservedElements[T] > 0
             THEN [reservation EXCEPT ![T] =
                     IF @ = "reserved" THEN "released" ELSE "released_null"]
             ELSE reservation
    /\ pc' = [pc EXCEPT ![t] = "dtor_quota"]
    /\ UNCHANGED <<pureVars, compartmentMutex, tables, tablesMutex, tableState, tableType, tableId, tableCompartment,
                   numReservedElements, compartmentTables, hasQuota, segVars, prev,
                   numElements, elements, committedPages, resizingMutex,
                   quotaCurrent, call, loc, ret, pre, writes, latest>>

\* A scope of compartmentLock that ends with the mutex still held.
compartmentUnlock_keeps(t) == compartmentMutex

\* The end of the scope of a compartmentLock of thread t, in createTable
\* when it returns null from inside the scope, and in the caller of a
\* "delete table" of a table that is in a compartment.
compartmentUnlock(t) ==
    [compartment \in Compartments |->
       IF compartmentMutex[compartment] = t THEN NoThread
       ELSE compartmentMutex[compartment]]

\* if(resourceQuota) resourceQuota->tableElems.free(numElements); the object
\* is gone and the deleting operation goes on: createTable and cloneTable
\* return null, cloneTable leaving the scope of its lock on the source and
\* createTable that of its lock on the compartment.
DtorQuota(t) ==
    /\ pc[t] = "dtor_quota"
    /\ LET T == loc[t].table
       IN  /\ quotaCurrent' = QuotaFree(T, numElements[T])
           /\ tableState' = [tableState EXCEPT ![T] = "deleted"]
    /\ resizingMutex' =
          IF call[t].op = "clone"
          THEN [resizingMutex EXCEPT ![call[t].table] = NoThread]
          ELSE resizingMutex
    /\ compartmentMutex' = compartmentUnlock(t)
    /\ Done(t, Result("null", "null", 0))
    /\ UNCHANGED <<pureVars, tables, tablesMutex, tableType, tableId, tableCompartment, reservation,
                   numReservedElements, compartmentTables, hasQuota, segVars, prev,
                   numElements, elements, committedPages,
                   call, loc, pre, writes, latest>>

\* "delete table" by the collector, once the table is referenced by nothing:
\* no call is in progress on any thread.  The collector holds the mutex of
\* the table's compartment, as ~Table asserts of a table that has an id.
DeleteTable(t, T) ==
    /\ \A u \in Threads : pc[u] = "idle"
    /\ T \in LiveTables
    /\ compartmentMutex[tableCompartment[T]] = NoThread
    /\ compartmentMutex' =
          [compartmentMutex EXCEPT ![tableCompartment[T]] = t]
    /\ call' = [call EXCEPT ![t] = [op |-> "delete", table |-> T]]
    /\ loc' = [loc EXCEPT ![t] = [NoLoc EXCEPT !.table = T]]
    /\ StartDelete(t)
    /\ UNCHANGED <<pureVars, tables, tablesMutex, tableState, tableType, tableId,
                   tableCompartment, reservation, numReservedElements,
                   compartmentTables, hasQuota, segVars, prev, numElements,
                   elements, committedPages, resizingMutex, quotaCurrent, ret,
                   pre, writes, latest>>

(***************************************************************************)
(* growTableImpl.                                                          *)
(***************************************************************************)
\* growTableImpl never initializing the new elements.
initializeNewElements_never(t) == FALSE

\* growTableImpl's initializeNewElements: false only in cloneTable.
initializeNewElements(t) == call[t].op # "clone"

\* growTableImpl returns ok (with the old count) to its caller: growTable and
\* table.grow return, createTable goes on to the compartment or deletes
\* the table, cloneTable goes on to copy the elements or deletes the table.
GrowReturns(t, ok, oldNumElements) ==
    CASE call[t].op = "grow" ->
           Done(t, Result(IF ok THEN "true" ELSE "false", "null",
                          IF ok THEN oldNumElements
                          ELSE IF call[t].api = "table.grow" THEN -1 ELSE 0))
      [] call[t].op = "create" ->
           /\ IF ok
              THEN pc' = [pc EXCEPT ![t] = "create_add"]
              ELSE StartDelete(t)
           /\ ret' = ret
      [] call[t].op = "clone" ->
           /\ IF ok
              THEN pc' = [pc EXCEPT ![t] = "clone_copy"]
              ELSE StartDelete(t)
           /\ ret' = ret

\* growTableImpl without its test for a grow by zero elements.
growsNothing_never(numElementsToGrow) == FALSE

\* !numElementsToGrow
growsNothing(numElementsToGrow) == numElementsToGrow = 0

\* if(!numElementsToGrow): the current count is read and nothing else is done.
GrowZero(t) ==
    /\ pc[t] = "grow_begin"
    /\ growsNothing(loc[t].n)
    /\ GrowReturns(t, TRUE, numElements[loc[t].table])
    /\ UNCHANGED <<pureVars, tableVars, segVars, prev, numElements, elements, committedPages,
                   resizingMutex, quotaCurrent, call, loc, pre, writes, latest>>

\* Check the table element quota, before the resizing mutex is taken.
GrowQuota(t) ==
    /\ pc[t] = "grow_begin"
    /\ ~growsNothing(loc[t].n)
    /\ LET T == loc[t].table
       IN  IF QuotaAllows(T, loc[t].n)
           THEN /\ quotaCurrent' = QuotaAllocate(T, loc[t].n)
                /\ pc' = [pc EXCEPT ![t] = "grow_lock"]
                /\ ret' = ret
           ELSE /\ quotaCurrent' = quotaCurrent
                /\ GrowReturns(t, FALSE, 0)
    /\ UNCHANGED <<pureVars, tableVars, segVars, prev, numElements, elements, committedPages,
                   resizingMutex, call, loc, pre, writes, latest>>

\* growTableImpl going on without waiting for the resizing mutex.
resizingMutexIsFree_always(T) == TRUE

\* Whether the resizing mutex of the table can be taken.
resizingMutexIsFree(T) == resizingMutex[T] = NoThread

\* Lock<Platform::Mutex> resizingLock(table->resizingMutex).
GrowLock(t) ==
    /\ pc[t] = "grow_lock"
    /\ resizingMutexIsFree(loc[t].table)
    /\ resizingMutex' = [resizingMutex EXCEPT ![loc[t].table] = t]
    /\ pc' = [pc EXCEPT ![t] = "grow_check"]
    /\ UNCHANGED <<pureVars, tableVars, segVars, prev, numElements, elements, committedPages,
                   quotaCurrent, call, loc, ret, pre, writes, latest>>

\* A failing grow that keeps what it had allocated.
growFailureQuota_noRefund(T, numElementsToGrow) == quotaCurrent

\* The quota's charge after a grow that fails under the lock gave back what
\* it had allocated.
growFailureQuota(T, numElementsToGrow) == QuotaFree(T, numElementsToGrow)

\* The limit test without the table type's maximum.
GrowExceedsLimits_noTypeMax(T, numElementsToGrow, oldNumElements) ==
    \/ numElementsToGrow > maxTableElems
    \/ oldNumElements > maxTableElems - numElementsToGrow

\* The limit test of growTableImpl on the count read under the lock.
GrowExceedsLimits(T, numElementsToGrow, oldNumElements) ==
    \/ numElementsToGrow > tableType[T].max
    \/ oldNumElements > tableType[T].max - numElementsToGrow
    \/ numElementsToGrow > maxTableElems
    \/ oldNumElements > maxTableElems - numElementsToGrow

\* The commit asking for every page from the first of the reservation.
commitRange_fromBase(previousNumPlatformPages, newNumPlatformPages) ==
    0 .. (newNumPlatformPages - 1)

\* The pages Platform::commitVirtualPages is asked for: newNumPlatformPages
\* - previousNumPlatformPages pages from page previousNumPlatformPages on.
commitRange(previousNumPlatformPages, newNumPlatformPages) ==
    previousNumPlatformPages .. (newNumPlatformPages - 1)

\* Under the lock: read the count, test the limits and commit the pages the
\* new elements need.  Platform::commitVirtualPages may fail.  A failure
\* frees the quota charge, unlocks and returns false.
GrowCheck(t) ==
    /\ pc[t] = "grow_check"
    /\ LET T == loc[t].table
           numElementsToGrow == loc[t].n
           oldNumElements == numElements[T]
           newNumElements == oldNumElements + numElementsToGrow
           previousNumPlatformPages ==
               getNumPlatformPages(oldNumElements * ElementBytes)
           newNumPlatformPages ==
               getNumPlatformPages(newNumElements * ElementBytes)
       IN  \E commitSucceeds \in BOOLEAN :
             IF \/ GrowExceedsLimits(T, numElementsToGrow, oldNumElements)
                \/ /\ newNumPlatformPages # previousNumPlatformPages
                   /\ ~commitSucceeds
             THEN /\ quotaCurrent' = growFailureQuota(T, numElementsToGrow)
                  /\ resizingMutex' = [resizingMutex EXCEPT ![T] = NoThread]
                  /\ GrowReturns(t, FALSE, 0)
                  /\ UNCHANGED <<committedPages, loc>>
             ELSE /\ committedPages' = [committedPages EXCEPT ![T] =
                        @ \cup commitRange(previousNumPlatformPages,
                                           newNumPlatformPages)]
                  /\ loc' = [loc EXCEPT ![t].oldNumElements = oldNumElements,
                                        ![t].k = oldNumElements]
                  /\ pc' = [pc EXCEPT ![t] = "grow_init"]
                  /\ UNCHANGED <<quotaCurrent, resizingMutex, ret>>
    /\ UNCHANGED <<pureVars, tableVars, segVars, prev, numElements, elements, call, pre,
                   writes, latest>>

\* The initialization writing the uninitialized sentinel whatever the
\* initial element is.
biasedTableInitElement_sentinel(initializeToElement) ==
    objectToBiasedTableElementValue(getUninitializedElement)

\* The word the initialization loop stores into the new elements.
biasedTableInitElement(initializeToElement) ==
    objectToBiasedTableElementValue(initializeToElement)

\* One turn of the initialization loop: the biased initial element is
\* release-stored into slot elementIndex.
GrowInitialize(t) ==
    /\ pc[t] = "grow_init"
    /\ initializeNewElements(t)
    /\ loc[t].k < loc[t].oldNumElements + loc[t].n
    /\ LET T == loc[t].table
           elementIndex == loc[t].k
       IN  /\ elements' = [elements EXCEPT ![T][elementIndex] =
                             biasedTableInitElement(loc[t].object)]
           /\ latest' = [latest EXCEPT ![T][elementIndex] =
                           AsReference(loc[t].object)]
    /\ loc' = [loc EXCEPT ![t].k = @ + 1]
    /\ UNCHANGED <<pureVars, tableVars, segVars, prev, numElements, committedPages,
                   resizingMutex, quotaCurrent, pc, call, ret, pre, writes>>

\* table->numElements.store(newNumElements), the unlock and the return.
GrowPublish(t) ==
    /\ pc[t] = "grow_init"
    /\ (~initializeNewElements(t)
          \/ loc[t].k >= loc[t].oldNumElements + loc[t].n)
    /\ LET T == loc[t].table
       IN  /\ numElements' = [numElements EXCEPT ![T] =
                                loc[t].oldNumElements + loc[t].n]
           /\ resizingMutex' = [resizingMutex EXCEPT ![T] = NoThread]
    /\ GrowReturns(t, TRUE, loc[t].oldNumElements)
    /\ UNCHANGED <<pureVars, tableVars, segVars, prev, elements, committedPages, quotaCurrent,
                   call, loc, pre, writes, latest>>

\* Runtime::growTable (the host API, which passes initialElement as given)
\* and the table.grow intrinsic (which replaces a null initialValue by the
\* uninitialized sentinel).
growTable(t, api, T, numElementsToGrow, initialValue) ==
    /\ pc[t] = "idle"
    /\ T \in LiveTables
    /\ LET initialElement ==
             IF api = "table.grow" /\ initialValue = "null"
             THEN getUninitializedElement
             ELSE initialValue
       IN  /\ call' = [call EXCEPT ![t] =
                         [op |-> "grow", api |-> api, table |-> T,
                          numElementsToGrow |-> numElementsToGrow,
                          initialElement |-> initialElement]]
           /\ loc' = [loc EXCEPT ![t] =
                        [NoLoc EXCEPT !.table = T, !.n = numElementsToGrow,
                                      !.object = initialElement]]
    /\ pc' = [pc EXCEPT ![t] = "grow_begin"]
    /\ UNCHANGED <<pureVars, tableVars, segVars, prev, numElements, elements, committedPages,
                   resizingMutex, quotaCurrent, ret, writes, latest>>

\* A call of growTable or table.grow.
GrowTable(t, api, T, numElementsToGrow, initialValue) ==
    /\ growTable(t, api, T, numElementsToGrow, initialValue)
    /\ UNCHANGED pre

\* The same call, with the state in which it begins kept as history.
GrowTableObserved(t, api, T, numElementsToGrow, initialValue) ==
    /\ growTable(t, api, T, numElementsToGrow, initialValue)
    /\ pre' = [pre EXCEPT ![t] = Snapshot]

(***************************************************************************)
(* call_indirect and the callIndirectFail intrinsic.                       *)
(***************************************************************************)
\* The signature encodings of the functions: the dummy functions are made
\* with IR::FunctionType::Encoding{0}, which no guest signature has.
EncodedType(function) ==
    CASE function = "F1" -> 1
      [] function = "F2" -> 2
      [] OTHER -> 0

GuestTypeEncodings == {1, 2}

\* callIndirectFail without its test for the uninitialized sentinel.
callIndirectFail_noUninitializedTest(function) ==
    IF function = getOutOfBoundsElement
    THEN "outOfBoundsTableAccess"
    ELSE "indirectCallSignatureMismatch"

\* The exception callIndirectFail throws for the function it is given.
callIndirectFail(function) ==
    IF function = getOutOfBoundsElement
    THEN "outOfBoundsTableAccess"
    ELSE IF function = getUninitializedElement
    THEN "uninitializedTableElement"
    ELSE "indirectCallSignatureMismatch"

\* The function the code emitted for call_indirect loads from slot index:
\* the word of the slot plus the address of the out-of-bounds sentinel.
LoadedFunction(T, index) == biasedTableElementValueToObject(elements[T][index])

\* A call_indirect through slot index whose loaded function does not have
\* the expected signature: the emitted code calls callIndirectFail.  The
\* index is a U32 and lies inside the reservation; a slot on a page that is
\* not committed faults, which is unwound as outOfBoundsTableAccess.  The
\* emitted code has read the function's encodedType before the call, so the
\* function it passes is an object, not a null or wild pointer.
CallIndirectFail(t, T, index, expectedTypeEncoding) ==
    /\ pc[t] = "idle"
    /\ T \in LiveTables
    /\ index < numReservedElements[T]
    /\ Faults(T, index)
          \/ /\ LoadedFunction(T, index) \in Objects \ {"null"}
             /\ EncodedType(LoadedFunction(T, index)) # expectedTypeEncoding
    /\ call' = [call EXCEPT ![t] =
                  [op |-> "call_indirect", table |-> T, index |-> index,
                   expectedTypeEncoding |-> expectedTypeEncoding]]
    /\ Done(t, Result(IF Faults(T, index)
                      THEN "outOfBoundsTableAccess"
                      ELSE callIndirectFail(LoadedFunction(T, index)),
                      "null", index))
    /\ UNCHANGED <<pureVars, tableVars, segVars, prev, numElements, elements, committedPages,
                   resizingMutex, quotaCurrent, loc, pre, writes, latest>>

(***************************************************************************)
(* Runtime::createTable (with createTableImpl).                            *)
(***************************************************************************)
\* Table types a caller creates: min <= max, and a max above the
\* implementation limit stands for a type without a maximum.
TableTypes ==
    {tt \in [min : (0 .. MaxMin) \cup {ReservedElems},
             max : {1, maxTableElems, ReservedElems + 1}] :
        tt.min <= tt.max}

\* createTable handing the element to the initial grow as it is.
createTableElement_keepsNull(element) == element

\* If element is null, use the uninitialized element sentinel instead.
createTableElement(element) ==
    IF element = "null" THEN getUninitializedElement ELSE element

CompartmentIds == 0 .. (Cardinality(Tables) - 1)

FreeIds(compartment) ==
    {id \in CompartmentIds : compartmentTables[compartment][id] = 0}

\* The table object the next "new Table" yields.
NextTable == CHOOSE T \in Tables :
                /\ tableState[T] = "none"
                /\ \A U \in Tables : tableState[U] = "none" => T <= U

\* createTable up to the lock of createTableImpl: the table is constructed
\* and its pages are reserved (which may fail: the table is deleted and null
\* returned); a null element is replaced by the uninitialized sentinel.
CreateTable(t, type, element, resourceQuota) ==
    /\ pc[t] = "idle"
    /\ \E T \in Tables : tableState[T] = "none"
    /\ \E reserveSucceeds \in BOOLEAN :
          LET T == NextTable
          IN  /\ call' = [call EXCEPT ![t] =
                            [op |-> "create", table |-> T, type |-> type,
                             element |-> element]]
              /\ tableState' = [tableState EXCEPT ![T] = "alive"]
              /\ tableType' = [tableType EXCEPT ![T] = type]
              /\ hasQuota' = [hasQuota EXCEPT ![T] = resourceQuota]
              /\ tableCompartment' = [tableCompartment EXCEPT ![T] = 1]
              /\ numReservedElements' =
                    [numReservedElements EXCEPT ![T] = ReservedElems]
              /\ loc' = [loc EXCEPT ![t] =
                           [NoLoc EXCEPT !.table = T, !.n = type.min,
                                         !.object = createTableElement(element)]]
              /\ IF reserveSucceeds
                 THEN /\ reservation' = [reservation EXCEPT ![T] = "reserved"]
                      /\ pc' = [pc EXCEPT ![t] = "create_lock"]
                 ELSE /\ UNCHANGED reservation
                      /\ StartDelete(t)
    /\ pre' = [pre EXCEPT ![t] = Snapshot]
    /\ UNCHANGED <<pureVars, compartmentMutex, tables, tablesMutex, tableId, compartmentTables, segVars, prev, numElements, elements,
                   committedPages, resizingMutex, quotaCurrent, ret, writes,
                   latest>>

\* Add the table to the global array, under tablesMutex, and return from
\* createTableImpl to createTable or cloneTable, which goes on with
\* growTableImpl.
CreateRegister(t) ==
    /\ pc[t] = "create_register"
    /\ tables' = Append(tables, loc[t].table)
    /\ tablesMutex' = tablesUnlock(t)
    /\ pc' = [pc EXCEPT ![t] = "grow_begin"]
    /\ UNCHANGED <<pureVars, compartmentMutex, tableState, tableType, tableId, tableCompartment,
                   reservation, numReservedElements, compartmentTables,
                   hasQuota, segVars, prev, numElements, elements,
                   committedPages, resizingMutex, quotaCurrent, call, loc,
                   ret, pre, writes, latest>>

\* Under the compartment's mutex, add the table to the compartment's
\* IndexMap: tables.add yields a free id and the scope of the lock ends, or
\* it yields UINTPTR_MAX when the map has none to give, and the table is
\* deleted inside the scope of the lock.
CreateAdd(t) ==
    /\ pc[t] = "create_add"
    /\ LET T == loc[t].table
           compartment == tableCompartment[T]
           free == FreeIds(compartment)
       IN  /\ compartmentMutex[compartment] = NoThread
           /\ \E addSucceeds \in BOOLEAN :
                 IF addSucceeds /\ free # {}
                 THEN LET id == CHOOSE i \in free : \A j \in free : i <= j
                      IN  /\ tableId' = [tableId EXCEPT ![T] = id]
                          /\ compartmentTables' =
                                [compartmentTables EXCEPT ![compartment][id] = T]
                          /\ compartmentMutex' = compartmentMutex
                          /\ Done(t, Result("ok", "null", T))
                 ELSE /\ UNCHANGED <<tableId, compartmentTables, ret>>
                      /\ compartmentMutex' =
                            [compartmentMutex EXCEPT ![compartment] = t]
                      /\ StartDelete(t)
    /\ UNCHANGED <<pureVars, tables, tablesMutex, tableState, tableType, tableCompartment, reservation,
                   numReservedElements, hasQuota, segVars, prev, numElements,
                   elements, committedPages, resizingMutex, quotaCurrent,
                   call, loc, pre, writes, latest>>

(***************************************************************************)
(* Runtime::cloneTable.                                                    *)
(***************************************************************************)
\* A call of cloneTable(table, newCompartment).
cloneTable(t, T, newCompartment) ==
    /\ pc[t] = "idle"
    /\ T \in LiveTables
    /\ \E newTable \in Tables : tableState[newTable] = "none"
    /\ call' = [call EXCEPT ![t] = [op |-> "clone", table |-> T,
                                    newCompartment |-> newCompartment]]
    /\ loc' = [loc EXCEPT ![t] = [NoLoc EXCEPT !.table = T]]
    /\ pc' = [pc EXCEPT ![t] = "clone_lock"]
    /\ UNCHANGED <<pureVars, tableVars, segVars, prev, numElements, elements,
                   committedPages, resizingMutex, quotaCurrent, ret, writes,
                   latest>>

CloneTable(t, T, newCompartment) ==
    /\ cloneTable(t, T, newCompartment)
    /\ UNCHANGED pre

\* The same call, with the state in which it begins kept as history.
CloneTableObserved(t, T, newCompartment) ==
    /\ cloneTable(t, T, newCompartment)
    /\ pre' = [pre EXCEPT ![t] = Snapshot]

\* Take the source's resizing mutex, read its count and call createTableImpl
\* for the new table, with the source's type and quota: the table is
\* constructed and its pages are reserved (which may fail: the table is
\* deleted and null returned).
CloneCreate(t) ==
    /\ pc[t] = "clone_lock"
    /\ resizingMutex[call[t].table] = NoThread
    /\ \E newTable \in Tables : tableState[newTable] = "none"
    /\ resizingMutex' = [resizingMutex EXCEPT ![call[t].table] = t]
    /\ \E reserveSucceeds \in BOOLEAN :
          LET table == call[t].table
              newTable == NextTable
          IN  /\ tableState' = [tableState EXCEPT ![newTable] = "alive"]
              /\ tableType' = [tableType EXCEPT ![newTable] = tableType[table]]
              /\ hasQuota' = [hasQuota EXCEPT ![newTable] = hasQuota[table]]
              /\ tableCompartment' = [tableCompartment EXCEPT ![newTable] =
                                        call[t].newCompartment]
              /\ numReservedElements' =
                    [numReservedElements EXCEPT ![newTable] = ReservedElems]
              /\ loc' = [loc EXCEPT ![t] =
                           [NoLoc EXCEPT !.table = newTable,
                                         !.n = numElements[table]]]
              /\ IF reserveSucceeds
                 THEN /\ reservation' = [reservation EXCEPT ![newTable] = "reserved"]
                      /\ pc' = [pc EXCEPT ![t] = "create_lock"]
                 ELSE /\ UNCHANGED reservation
                      /\ StartDelete(t)
    /\ UNCHANGED <<pureVars, compartmentMutex, tables, tablesMutex, tableId, compartmentTables, segVars, prev, numElements, elements,
                   committedPages, quotaCurrent, call, ret, pre, writes, latest>>

\* The copy loop loading the source's first slot at every turn.
clonedElementValue_first(table, elementIndex) == elements[table][0]

\* The word the copy loop loads for slot elementIndex of the new table.
clonedElementValue(table, elementIndex) == elements[table][elementIndex]

\* One turn of the copy loop: the word of the source's slot elementIndex is
\* acquire-loaded and release-stored into the new table's slot.
CloneCopy(t) ==
    /\ pc[t] = "clone_copy"
    /\ loc[t].k < loc[t].n
    /\ LET table == call[t].table
           newTable == loc[t].table
           elementIndex == loc[t].k
       IN  /\ elements' = [elements EXCEPT ![newTable][elementIndex] =
                             clonedElementValue(table, elementIndex)]
           /\ latest' = [latest EXCEPT ![newTable][elementIndex] =
                           latest[table][elementIndex]]
    /\ loc' = [loc EXCEPT ![t].k = @ + 1]
    /\ UNCHANGED <<pureVars, tableVars, segVars, prev, numElements, committedPages,
                   resizingMutex, quotaCurrent, pc, call, ret, pre, writes>>

\* resizingLock.unlock() after the last element has been copied.
CloneUnlock(t) ==
    /\ pc[t] = "clone_copy"
    /\ loc[t].k >= loc[t].n
    /\ resizingMutex' = [resizingMutex EXCEPT ![call[t].table] = NoThread]
    /\ pc' = [pc EXCEPT ![t] = "clone_insert"]
    /\ UNCHANGED <<pureVars, tableVars, segVars, prev, numElements, elements, committedPages,
                   quotaCurrent, call, loc, ret, pre, writes, latest>>

\* Under the new compartment's mutex: the new table takes the source's id
\* and is inserted under it (insertOrFail: a taken id is a fatal error).
CloneInsert(t) ==
    /\ pc[t] = "clone_insert"
    /\ LET table == call[t].table
           newTable == loc[t].table
           newCompartment == call[t].newCompartment
       IN  /\ compartmentMutex[newCompartment] = NoThread
           /\ compartmentMutex' = compartmentMutex
           /\ tableId' = [tableId EXCEPT ![newTable] = tableId[table]]
           /\ IF compartmentTables[newCompartment][tableId[table]] = 0
              THEN /\ compartmentTables' =
                         [compartmentTables EXCEPT
                            ![newCompartment][tableId[table]] = newTable]
                   /\ Done(t, Result("ok", "null", newTable))
              ELSE /\ compartmentTables' = compartmentTables
                   /\ Done(t, Result("fatal", "null", newTable))
    /\ UNCHANGED <<pureVars, tables, tablesMutex, tableState, tableType, tableCompartment, reservation,
                   numReservedElements, hasQuota, segVars, prev, numElements,
                   elements, committedPages, resizingMutex, quotaCurrent,
                   call, loc, pre, writes, latest>>

(***************************************************************************)
(* Runtime::isAddressOwnedByTable.                                         *)
(***************************************************************************)
\* Bytes from one reservation to the next: the reserved elements and the
\* guard page.
ReservationStride == ReservedElems * ElementBytes + 2 ^ PageSizeLog2

\* The address Platform::allocateVirtualPages yields for table T: the
\* reservations of different tables are disjoint, none is at address zero.
BaseAddress(T) == T * ReservationStride

\* (U8*)table->elements: the reservation's address once the pages have been
\* reserved, also after they have been freed, and null otherwise.
startAddress(T) ==
    IF reservation[T] \in {"reserved", "released"} THEN BaseAddress(T) ELSE 0

\* ((U8*)table->elements) + table->numReservedBytes.
endAddress(T) == startAddress(T) + numReservedElements[T] * ElementBytes

\* isAddressOwnedByTable(address, outTable, outTableIndex): the first table
\* of the global array whose reserved range holds the address.
isAddressOwnedByTable(address) ==
    LET hits == {i \in 1 .. Len(tables) :
                    /\ address >= startAddress(tables[i])
                    /\ address < endAddress(tables[i])}
    IN  IF hits = {}
        THEN [kind |-> "false", table |-> 0, num |-> 0]
        ELSE LET first == CHOOSE i \in hits : \A j \in hits : i <= j
             IN  [kind |-> "true", table |-> tables[first],
                  num |-> (address - startAddress(tables[first]))
                             \div ElementBytes]

\* A call of isAddressOwnedByTable, up to its lock.
IsAddressOwnedByTable(t, address) ==
    /\ pc[t] = "idle"
    /\ call' = [call EXCEPT ![t] =
                  [op |-> "isAddressOwnedByTable", address |-> address]]
    /\ pc' = [pc EXCEPT ![t] = "owned_lock"]
    /\ UNCHANGED <<pureVars, tableVars, segVars, prev, numElements, elements, committedPages,
                   resizingMutex, quotaCurrent, loc, ret, pre, writes, latest>>

\* The scan of the global array under tablesMutex, and the return, which
\* ends the scope of the lock.
IsAddressOwnedByTableScan(t) ==
    /\ pc[t] = "owned_scan"
    /\ Done(t, isAddressOwnedByTable(call[t].address))
    /\ tablesMutex' = tablesUnlock(t)
    /\ UNCHANGED <<pureVars, compartmentMutex, tables, tableState, tableType, tableId, tableCompartment,
                   reservation, numReservedElements, compartmentTables,
                   hasQuota, segVars, prev, numElements, elements,
                   committedPages, resizingMutex, quotaCurrent, call, loc,
                   pre, writes, latest>>

(***************************************************************************)
(* Initial states and specifications.                                      *)
(***************************************************************************)
RECURSIVE ChargedBy(_)
\* The elements the tables of live charge to the quota.
ChargedBy(live) ==
    IF live = <<>>
    THEN 0
    ELSE (IF Head(live).resourceQuota THEN Len(Head(live).content) ELSE 0)
           + ChargedBy(Tail(live))

\* The state in which the tables live[1], live[2], ... have been created by
\* createTable, in this order, each with its type and quota use, and have
\* been grown and written until they hold the references of content; no
\* call is in progress, and charged elements of the quota are held by
\* tables outside the model.
InitTableState(live, charged) ==
    LET created == 1 .. Len(live)
    IN  /\ tables = [i \in created |-> i]
        /\ tablesMutex = NoThread
        /\ compartmentMutex = [compartment \in Compartments |-> NoThread]
        /\ tableState = [T \in Tables |-> IF T \in created THEN "alive"
                                          ELSE "none"]
        /\ tableType = [T \in Tables |-> IF T \in created THEN live[T].type
                                         ELSE [min |-> 0, max |-> 0]]
        /\ tableId = [T \in Tables |-> IF T \in created THEN T - 1 ELSE NoId]
        /\ tableCompartment = [T \in Tables |-> 1]
        /\ reservation = [T \in Tables |-> IF T \in created THEN "reserved"
                                           ELSE "null"]
        /\ numReservedElements =
              [T \in Tables |-> IF T \in created THEN ReservedElems ELSE 0]
        /\ numElements =
              [T \in Tables |-> IF T \in created THEN Len(live[T].content)
                               ELSE 0]
        /\ elements =
              [T \in Tables |->
                 [i \in Slots |->
                    IF T \in created /\ i < Len(live[T].content)
                    THEN objectToBiasedTableElementValue(
                             createTableElement(live[T].content[i + 1]))
                    ELSE 0]]
        /\ committedPages =
              [T \in Tables |->
                 IF T \in created
                 THEN 0 .. (getNumPlatformPages(
                                Len(live[T].content) * ElementBytes) - 1)
                 ELSE {}]
        /\ resizingMutex = [T \in Tables |-> NoThread]
        /\ hasQuota = [T \in Tables |-> IF T \in created
                                        THEN live[T].resourceQuota ELSE FALSE]
        /\ quotaCurrent = charged + ChargedBy(live)
        /\ compartmentTables =
              [compartment \in Compartments |->
                 [id \in CompartmentIds |->
                    IF compartment = 1 /\ id + 1 \in created THEN id + 1
                    ELSE 0]]
        /\ elemSegments = [s \in ElemSegmentIndices |-> <<ElemVector>>]
        /\ elemSegmentsMutex = NoThread
        /\ pc = [t \in Threads |-> "idle"]
        /\ call = [t \in Threads |-> NoCall]
        /\ loc = [t \in Threads |-> NoLoc]
        /\ ret = [t \in Threads |-> NoRet]
        /\ pre = [t \in Threads |-> NoPre]
        /\ writes = [t \in Threads |-> <<>>]
        /\ prev = [t \in Threads |-> NoPrev]
        /\ latest =
              [T \in Tables |->
                 [i \in Slots |->
                    IF T \in created /\ i < Len(live[T].content)
                    THEN live[T].content[i + 1] ELSE "none"]]

\* No set and no literal: the utility code is not in use.
NoIntSet == <<>>
NoParse == <<>>

\* The same state, for the scenarios of the operations on tables.
InitTables(live, charged) ==
    /\ InitTableState(live, charged)
    /\ intSet = NoIntSet
    /\ parse = NoParse

\* A table as createTable(type, element, resourceQuota) leaves it.
Created(type, element, resourceQuota) ==
    [type |-> type, content |-> [i \in 1 .. type.min |-> element],
     resourceQuota |-> resourceQuota]

\* A table without quota that holds the references of content.
Holding(max, content) ==
    [type |-> [min |-> 0, max |-> max], content |-> content,
     resourceQuota |-> FALSE]

(***************************************************************************)
(* SpecCreate: one host thread creates tables of every type and reads them. *)
(***************************************************************************)
Host == "t1"

NextCreate ==
    \/ \E type \in TableTypes, element \in References, resourceQuota \in BOOLEAN :
          CreateTable(Host, type, element, resourceQuota)
    \/ CreateAdd(Host)
    \/ DtorCompartment(Host)
    \/ TablesLock(Host)
    \/ CreateRegister(Host)
    \/ DtorRegistry(Host)
    \/ DtorFree(Host)
    \/ DtorQuota(Host)
    \/ GrowZero(Host)
    \/ GrowQuota(Host)
    \/ GrowLock(Host)
    \/ GrowCheck(Host)
    \/ GrowInitialize(Host)
    \/ GrowPublish(Host)
    \/ \E T \in Tables, index \in Indices : GetTableElement(Host, T, index)
    \/ \E T \in Tables : GetTableNumElements(Host, T)
    \/ Return(Host)

\* No table exists yet; the quota is unused or all but one element of it is
\* held elsewhere.
InitCreate == \E charged \in {0, QuotaMax - 1} : InitTables(<<>>, charged)

SpecCreate == InitCreate /\ [][NextCreate]_vars

\* Thread t has returned from a createTable that yielded a table.
CreateSucceeded(t) ==
    pc[t] = "done" /\ call[t].op = "create" /\ ret[t].kind = "ok"

\* C1: when createTable has returned a table of type {min, max} made with
\* initial element e, the table's size is min, a get of every index below
\* min yields e (null when e is null) and nothing else, and a get of every
\* index from min on, the indices past the reservation included, raises
\* OutOfBoundsTableAccess.
C1_CreateGivesMinElements ==
    \A t \in Threads :
        CreateSucceeded(t) =>
            LET T == call[t].table
                min == call[t].type.min
            IN  /\ numElements[T] = min
                /\ \A i \in Indices :
                      IF i < min
                      THEN GetOutcomes(T, i) = {Result("ok", call[t].element, i)}
                      ELSE GetOutcomes(T, i)
                             = {Result("outOfBoundsTableAccess", "null", i)}

\* A table of type {2, 3} has been created with a function as its initial
\* element, and one with a null initial element.
C1_Witness ==
    /\ \E t \in Threads :
          /\ CreateSucceeded(t)
          /\ call[t].type = [min |-> 2, max |-> maxTableElems]
          /\ call[t].element = "null"
    /\ \E T \in LiveTables :
          /\ tableType[T].min = 2
          /\ elements[T][1] = objectToBiasedTableElementValue("F1")

(***************************************************************************)
(* SpecGrow: one thread grows, writes and reads one created table.          *)
(***************************************************************************)
\* One table has been created, with a quota or without; the rest of the
\* quota is free or held elsewhere.
InitGrow ==
    \E type \in {tt \in TableTypes : tt.min <= MaxMin},
       element \in {"null", "F1"}, resourceQuota \in BOOLEAN,
       charged \in {0, QuotaMax - MaxMin} :
        InitTables(<<Created(type, element, resourceQuota)>>, charged)

NextGrow ==
    \/ \E api \in {"growTable", "table.grow"}, T \in Tables,
          numElementsToGrow \in 0 .. MaxDelta, initialValue \in References :
          GrowTableObserved(Host, api, T, numElementsToGrow, initialValue)
    \/ GrowZero(Host)
    \/ GrowQuota(Host)
    \/ GrowLock(Host)
    \/ GrowCheck(Host)
    \/ GrowInitialize(Host)
    \/ GrowPublish(Host)
    \/ \E T \in Tables, index \in Indices, newValue \in References :
          SetTableElement(Host, T, index, newValue)
    \/ SetLoad(Host)
    \/ SetCompareExchange(Host)
    \/ \E T \in Tables, index \in Indices : GetTableElement(Host, T, index)
    \/ \E T \in Tables : GetTableNumElements(Host, T)
    \/ \E T \in Tables, index \in Slots, expected \in GuestTypeEncodings :
          CallIndirectFail(Host, T, index, expected)
    \/ Return(Host)

SpecGrow == InitGrow /\ [][NextGrow]_vars

\* Thread t has returned from a grow by a positive number of elements,
\* with the given result.
GrowReturned(t, result) ==
    /\ pc[t] = "done"
    /\ call[t].op = "grow"
    /\ ret[t].kind = result

\* The slots a successful grow of thread t added.
NewSlots(t) ==
    {i \in Slots : /\ i >= pre[t].numElements[call[t].table]
                   /\ i < pre[t].numElements[call[t].table]
                            + call[t].numElementsToGrow}

\* The size, the reported old count and the old slots after a grow that
\* succeeded, against the state in which the call began.
GrowKeepsOld(t) ==
    LET T == call[t].table
        n == pre[t].numElements[T]
    IN  /\ numElements[T] = n + call[t].numElementsToGrow
        /\ ret[t].num = n
        /\ \A i \in Slots : i < n => elements[T][i] = pre[t].elements[T][i]

C3_FailedGrowChangesNothing ==
    \A t \in Threads :
        GrowReturned(t, "false") /\ call[t].numElementsToGrow > 0 =>
            /\ numElements = pre[t].numElements
            /\ elements = pre[t].elements
            /\ quotaCurrent = pre[t].quota

\* A grow has failed under the lock, after the quota had granted its
\* charge, on a table that holds elements.
C3_Witness ==
    \E t \in Threads :
        /\ GrowReturned(t, "false")
        /\ call[t].numElementsToGrow > 0
        /\ hasQuota[call[t].table]
        /\ pre[t].quota + call[t].numElementsToGrow <= QuotaMax
        /\ numElements[call[t].table] > 0
        /\ pre[t].quota > 0

\* Thread t has returned from a set of null into a slot below the size.
SetNullReturned(t) ==
    /\ pc[t] = "done"
    /\ call[t].op = "set"
    /\ call[t].newValue = "null"
    /\ ret[t].kind = "ok"
    /\ call[t].index < numElements[call[t].table]

\* C10: after set(i, null) on an index below the size, the slot holds the
\* biased uninitialized sentinel, get(i) returns null and raises nothing,
\* and callIndirectFail with the function loaded from the slot raises
\* UninitializedTableElement.
C10_SetNullStoresUninitialized ==
    \A t \in Threads :
        SetNullReturned(t) =>
            LET T == call[t].table
                i == call[t].index
            IN  /\ elements[T][i]
                     = objectToBiasedTableElementValue(getUninitializedElement)
                /\ GetOutcomes(T, i) = {Result("ok", "null", i)}
                /\ callIndirectFail(LoadedFunction(T, i))
                     = "uninitializedTableElement"

\* A set of null has replaced a function in a slot.
C10_Witness ==
    \E t \in Threads : SetNullReturned(t) /\ ret[t].object = "F1"

\* Thread t has come back from callIndirectFail, called with the function
\* loaded from a slot on a committed page.
CallIndirectFailed(t) ==
    /\ pc[t] = "done"
    /\ call[t].op = "call_indirect"
    /\ ~Faults(call[t].table, call[t].index)

\* C12: callIndirectFail never returns normally and raises exactly one of
\* three exceptions: OutOfBoundsTableAccess exactly when the function is
\* the out-of-bounds sentinel, UninitializedTableElement exactly when it is
\* the uninitialized sentinel, IndirectCallSignatureMismatch exactly when
\* it is any other function.
C12_CallIndirectFailRaisesOneOfThree ==
    \A t \in Threads :
        CallIndirectFailed(t) =>
           LET function == LoadedFunction(call[t].table, call[t].index)
           IN  /\ ret[t].kind \in {"outOfBoundsTableAccess",
                                   "uninitializedTableElement",
                                   "indirectCallSignatureMismatch"}
               /\ ret[t].kind = "outOfBoundsTableAccess"
                     <=> function = "OOB"
               /\ ret[t].kind = "uninitializedTableElement"
                     <=> function = "UNINIT"
               /\ ret[t].kind = "indirectCallSignatureMismatch"
                     <=> function \in Functions

\* callIndirectFail has raised UninitializedTableElement for slot 0 of a
\* table whose slot 1 holds a function and whose last reserved slot is on a
\* committed page and out of bounds.
C12_Witness ==
    \E t \in Threads :
        /\ CallIndirectFailed(t)
        /\ call[t].index = 0
        /\ ret[t].kind = "uninitializedTableElement"
        /\ LoadedFunction(call[t].table, 1) \in Functions
        /\ LoadedFunction(call[t].table, ReservedElems - 1) = "OOB"
        /\ ~Faults(call[t].table, ReservedElems - 1)

(***************************************************************************)
(* Spec: two guest threads grow, write and read one table concurrently.     *)
(***************************************************************************)
\* One empty table that may grow to MaxDelta elements has been created.
Init ==
    InitTables(<<Created([min |-> 0, max |-> MaxDelta], "null", FALSE)>>, 0)

Next ==
    \E t \in Threads :
        \/ \E T \in Tables, numElementsToGrow \in 0 .. MaxDelta,
              initialValue \in {"null", "F2"} :
              GrowTable(t, "table.grow", T, numElementsToGrow, initialValue)
        \/ GrowZero(t)
        \/ GrowQuota(t)
        \/ GrowLock(t)
        \/ GrowCheck(t)
        \/ GrowInitialize(t)
        \/ GrowPublish(t)
        \/ \E T \in Tables, index \in 0 .. MaxDelta, newValue \in {"null", "F1"} :
              SetTableElement(t, T, index, newValue)
        \/ SetLoad(t)
        \/ SetCompareExchange(t)
        \/ \E T \in Tables, index \in 0 .. MaxDelta :
              GetTableElement(t, T, index)
        \/ \E T \in Tables : GetTableNumElements(t, T)
        \/ Return(t)

Spec == Init /\ [][Next]_vars

\* Slot i of table T has been initialized by a grow that has not yet
\* published the new count.
InitializedByGrowInProgress(T, i) ==
    \E t \in Threads :
        /\ pc[t] = "grow_init"
        /\ loc[t].table = T
        /\ loc[t].oldNumElements <= i
        /\ i < loc[t].k

\* C4 as claimed: in every state, a get of any index at or above the
\* table's current size raises OutOfBoundsTableAccess, also while another
\* thread is in the middle of growing the table.
C4_Original_GetAboveSizeRaises ==
    \A T \in LiveTables, i \in Indices :
        i >= numElements[T] =>
            GetOutcomes(T, i) = {Result("outOfBoundsTableAccess", "null", i)}

\* C4, amended: in every state, a get of an index at or above the table's
\* current size raises OutOfBoundsTableAccess unless the slot is one that a
\* grow in progress has already initialized and not yet published.
C4_GetAboveSizeRaisesUnlessGrowing ==
    \A T \in LiveTables, i \in Indices :
        i >= numElements[T] /\ ~InitializedByGrowInProgress(T, i) =>
            GetOutcomes(T, i) = {Result("outOfBoundsTableAccess", "null", i)}

\* A thread is in the middle of growing a table, with one new slot
\* initialized and one not, and another thread's get of the slot not yet
\* initialized has raised OutOfBoundsTableAccess.
C4_Witness ==
    \E t, u \in Threads :
        /\ pc[t] = "grow_init"
        /\ loc[t].k = loc[t].oldNumElements + 1
        /\ loc[t].n = 2
        /\ pc[u] = "done"
        /\ call[u].op = "get"
        /\ call[u].table = loc[t].table
        /\ call[u].index = loc[t].k
        /\ ret[u].kind = "outOfBoundsTableAccess"

\* The step of thread t is a get of a slot below the size of its table.
GetStep(t) ==
    /\ pc[t] = "idle"
    /\ pc'[t] = "done"
    /\ call'[t].op = "get"
    /\ call'[t].index < numElements[call'[t].table]

\* C5: the writes of a slot are totally ordered by their compare-exchange
\* (and the initialization by grow), and every get of a slot below the size
\* returns the reference given by the latest write ordered before it; so no
\* thread reads an older value after a newer one.
C5_GetReturnsLatestSet ==
    [][\A t \in Threads :
          GetStep(t) =>
              ret'[t] = Result("ok", latest[call'[t].table][call'[t].index],
                               call'[t].index)]_vars

\* A get has returned the value of a set that won the slot from a
\* concurrent set of another thread, which has to retry.
C5_Witness ==
    \E t, u \in Threads :
        /\ pc[t] = "done"
        /\ call[t].op = "get"
        /\ ret[t] = Result("ok", "F1", call[t].index)
        /\ pc[u] = "set_cas"
        /\ loc[u].index = call[t].index
        /\ loc[u].object = getUninitializedElement
        /\ loc[u].oldBiasedValue # elements[loc[u].table][loc[u].index]
        /\ latest[call[t].table][call[t].index] = "F1"

(***************************************************************************)
(* SpecCopy: one thread copies within a table and from a second table.      *)
(***************************************************************************)
\* The contents a table of maxTableElems elements can have been given.
Contents == [1 .. maxTableElems -> References]

\* Table 1 holds any references; table 2 holds two.
InitCopy ==
    \E content \in Contents :
        InitTables(<<Holding(maxTableElems, content),
                     Holding(maxTableElems, <<"F2", "null">>)>>, 0)

\* The return from a table.copy within one table from offset 0 to offset 1:
\* of these calls history is kept, so that the copy back that follows can be
\* compared with the state before both.
ReturnFromCopyUp(t) ==
    /\ call[t].op = "copy"
    /\ call[t].sourceTable = call[t].destTable
    /\ call[t].sourceOffset = 0
    /\ call[t].destOffset = 1
    /\ ReturnObserved(t)

NextCopy ==
    \/ \E destOffset, sourceOffset \in 0 .. MaxDelta,
          numElems \in 0 .. maxTableElems :
          TableCopyObserved(Host, destOffset, sourceOffset, numElems, 1, 1)
    \/ \E destOffset \in 0 .. MaxDelta, numElems \in 1 .. MaxDelta :
          TableCopyObserved(Host, destOffset, 0, numElems, 2, 1)
    \/ CopyGet(Host)
    \/ SetLoad(Host)
    \/ SetCompareExchange(Host)
    \/ ReturnFromCopyUp(Host)
    \/ Return(Host)

SpecCopy == InitCopy /\ [][NextCopy]_vars

\* Thread t has finished the table.copy c, begun in the state before.
CopyFinished(t, c, before) ==
    /\ pc[t] = "done"
    /\ c.op = "copy"
    /\ c.sourceOffset + c.numElements <= before.numElements[c.sourceTable]
    /\ c.destOffset + c.numElements <= before.numElements[c.destTable]

\* The table.copy that thread t has finished left in its destination range
\* what its source range held when it began, and nothing else changed.
CopyIsMemmove(t) ==
    LET c == call[t]
        inDest(T, i) == /\ T = c.destTable
                        /\ i >= c.destOffset
                        /\ i < c.destOffset + c.numElements
    IN  /\ ret[t].kind = "ok"
        /\ \A T \in Tables, i \in Slots :
              elements[T][i] =
                 IF inDest(T, i)
                 THEN pre[t].elements[c.sourceTable]
                                     [c.sourceOffset + (i - c.destOffset)]
                 ELSE pre[t].elements[T][i]

\* Thread t copied [0, n) to [1, n+1) of a table and has now finished
\* copying [1, n+1) back to [0, n).
CopiedThereAndBack(t) ==
    /\ CopyFinished(t, call[t], pre[t])
    /\ prev[t].call.op = "copy"
    /\ CopyFinished(t, prev[t].call, prev[t].pre)
    /\ prev[t].call.sourceTable = call[t].destTable
    /\ prev[t].call.destTable = call[t].destTable
    /\ call[t].sourceTable = call[t].destTable
    /\ prev[t].call.sourceOffset = 0 /\ prev[t].call.destOffset = 1
    /\ call[t].sourceOffset = 1 /\ call[t].destOffset = 0
    /\ prev[t].call.numElements = call[t].numElements

\* Thread t has finished a table.copy whose source range is its destination
\* range.
CopiedOntoItself(t) ==
    /\ CopyFinished(t, call[t], pre[t])
    /\ call[t].sourceTable = call[t].destTable
    /\ call[t].sourceOffset = call[t].destOffset

\* C6: a table.copy with both ranges inside the tables behaves as memmove:
\* the destination range ends up holding what the source range held before
\* the copy, also when the ranges overlap in one table, in either direction;
\* copying [0, n) to [1, n+1) and then back restores the prefix [0, n), and
\* a copy of a range onto itself changes nothing.
C6_CopyIsMemmove ==
    \A t \in Threads :
        /\ CopyFinished(t, call[t], pre[t]) => CopyIsMemmove(t)
        /\ CopiedThereAndBack(t) =>
              \A k \in Slots :
                  k < call[t].numElements =>
                     elements[call[t].destTable][k]
                        = prev[t].pre.elements[call[t].destTable][k]
        /\ CopiedOntoItself(t) => elements = pre[t].elements

\* A copy of two different elements one slot up and then back has finished.
C6_Witness ==
    /\ CopiedThereAndBack(Host)
    /\ call[Host].numElements = 2
    /\ prev[Host].pre.elements[1][0] # prev[Host].pre.elements[1][1]
    /\ prev[Host].pre.elements[1][1] # prev[Host].pre.elements[1][2]
    /\ pre[Host].elements[1][0] = pre[Host].elements[1][1]

(***************************************************************************)
(* SpecFill: one thread fills ranges of a table and reads it.               *)
(***************************************************************************)
InitFill ==
    \E content \in Contents :
        InitTables(<<Holding(maxTableElems, content)>>, 0)

NextFill ==
    \/ \E destOffset \in Indices, value \in References,
          numElems \in 0 .. maxTableElems :
          TableFillObserved(Host, destOffset, value, numElems, 1)
    \/ SetLoad(Host)
    \/ SetCompareExchange(Host)
    \/ \E index \in Indices : GetTableElement(Host, 1, index)
    \/ Return(Host)

SpecFill == InitFill /\ [][NextFill]_vars

\* Thread t has finished a table.fill of a range inside the table.
FillFinished(t) ==
    /\ pc[t] = "done"
    /\ call[t].op = "fill"
    /\ call[t].destOffset + call[t].numElements
          <= pre[t].numElements[call[t].destTable]

\* C7: when table.fill(off, v, n) with off + n <= size has completed, with
\* no other writer, get(off + k) returns v for every k < n, null when v is
\* null, and every slot outside [off, off + n) holds what it held before.
C7_FillWritesRange ==
    \A t \in Threads :
        FillFinished(t) =>
           LET c == call[t]
               inRange(T, i) == /\ T = c.destTable
                                /\ i >= c.destOffset
                                /\ i < c.destOffset + c.numElements
           IN  /\ ret[t].kind = "ok"
               /\ \A T \in Tables, i \in Slots :
                     IF inRange(T, i)
                     THEN GetOutcomes(T, i) = {Result("ok", c.value, i)}
                     ELSE elements[T][i] = pre[t].elements[T][i]

\* A fill of two slots with a function has finished in a table whose
\* three slots held something else.
C7_Witness ==
    /\ FillFinished(Host)
    /\ call[Host].numElements = 2
    /\ call[Host].destOffset = 1
    /\ call[Host].value = "F1"
    /\ \A i \in 0 .. 2 :
          pre[Host].elements[1][i] # objectToBiasedTableElementValue("F1")

(***************************************************************************)
(* SpecInit: two threads run table.init and elem.drop on one segment.       *)
(***************************************************************************)
InitInit == InitTables(<<Holding(maxTableElems, <<"F1", "F1">>)>>, 0)

NextInit ==
    \E t \in Threads :
        \/ \E destIndex \in {0, 1}, sourceIndex \in 0 .. MaxDelta,
              numElems \in 1 .. MaxDelta :
              TableInitObserved(t, destIndex, sourceIndex, numElems, 1, 0)
        \/ InitCapture(t)
        \/ InitElem(t)
        \/ SetLoad(t)
        \/ SetCompareExchange(t)
        \/ ElemDropObserved(t, 0)
        \/ DropReset(t)
        \/ Return(t)

SpecInit == InitInit /\ [][NextInit]_vars

\* Thread t has finished a table.init that found its segment set.
InitFinished(t) ==
    /\ pc[t] = "done"
    /\ call[t].op = "init"
    /\ ret[t].kind # "invalidArgument"

\* The writes that table.init makes for the first n elements of its source
\* range: the words of the segment's elements, at the destination slots.
InitWrites(t, n) ==
    [k \in 1 .. n |->
       <<call[t].table, call[t].destOffset + k - 1,
         objectToBiasedTableElementValue(
            setTableElementValue(
               elemObject(ElemVector[call[t].sourceOffset + k])))>>]

\* How many elements of the source range of the table.init of thread t lie
\* inside the segment.
InitInRange(t) ==
    IF call[t].sourceOffset >= Len(ElemVector)
    THEN 0
    ELSE IF call[t].sourceOffset + call[t].numElements <= Len(ElemVector)
    THEN call[t].numElements
    ELSE Len(ElemVector) - call[t].sourceOffset

\* The source range of the table.init of thread t exceeds the segment.
InitExceedsSegment(t) ==
    call[t].sourceOffset + call[t].numElements > Len(ElemVector)

\* C8 as stated: a table.init whose source range exceeds the segment
\* raises OutOfBoundsElemSegmentAccess and modifies no slot of the table.
C8_Original_InitModifiesNothing ==
    \A t \in Threads :
        InitFinished(t) /\ InitExceedsSegment(t) =>
           /\ ret[t].kind = "outOfBoundsElemSegmentAccess"
           /\ writes[t] = <<>>

\* C8: a table.init whose source range exceeds the segment, and whose
\* destination slots for the elements that are inside the segment lie in
\* the table, raises OutOfBoundsElemSegmentAccess after it has written
\* these elements, and modifies no other slot; it modifies no slot only
\* when the source offset is at or beyond the segment's length.
C8_InitWritesPrefixThenRaises ==
    \A t \in Threads :
        /\ InitFinished(t)
        /\ InitExceedsSegment(t)
        /\ call[t].destOffset + InitInRange(t) <= numElements[call[t].table]
        => /\ ret[t].kind = "outOfBoundsElemSegmentAccess"
           /\ writes[t] = InitWrites(t, InitInRange(t))
           /\ writes[t] = <<>> <=> call[t].sourceOffset >= Len(ElemVector)

\* table.init(dest = 0, src = 1, n = 2) on the segment of two elements has
\* raised OutOfBoundsElemSegmentAccess, and slot 0 no longer holds what it
\* held when the call began.
C8_Witness ==
    /\ InitFinished(Host)
    /\ call[Host].destOffset = 0
    /\ call[Host].sourceOffset = 1
    /\ call[Host].numElements = 2
    /\ ret[Host].kind = "outOfBoundsElemSegmentAccess"
    /\ pc["t2"] = "idle"
    /\ elements[1][0] # pre[Host].elements[1][0]

\* The segment of the table.init of thread t had been dropped when the
\* call began.
InitAfterDrop(t) ==
    /\ call[t].op = "init"
    /\ pre[t].elemSegments[call[t].elemSegmentIndex] = <<>>

\* Thread t is in a table.init that has made its copy of the segment's
\* vector, with both ranges inside the segment and the table.
InitCaptured(t) ==
    /\ call[t].op = "init"
    /\ pc[t] \in {"init_elem", "set_load", "set_cas", "done"}
    /\ ret[t].kind # "invalidArgument"
    /\ ~InitExceedsSegment(t)
    /\ call[t].destOffset + call[t].numElements <= numElements[call[t].table]

\* C9: under any interleaving of table.init and elem.drop on one segment,
\* a table.init that has captured the segment's vector goes on writing its
\* elements in order, whether or not the segment is dropped meanwhile, and
\* completes normally having written all of them; a table.init that began
\* after an elem.drop had completed raises InvalidArgument and writes
\* nothing.
C9_InitAndDropRace ==
    \A t \in Threads :
        /\ InitCaptured(t) =>
              /\ ret[t].kind \in {"none", "ok"}
              /\ writes[t] = InitWrites(t, Len(writes[t]))
              /\ pc[t] = "done" =>
                    writes[t] = InitWrites(t, call[t].numElements)
        /\ InitAfterDrop(t) /\ pc[t] # "init_locked" =>
              /\ pc[t] = "done"
              /\ ret[t].kind = "invalidArgument"
              /\ writes[t] = <<>>

\* The table.init of t1 has completed normally with both its elements
\* written, all of them after the table.init of t2 began, which found the
\* segment dropped and raised InvalidArgument.
C9_Witness ==
    /\ InitCaptured("t1")
    /\ pc["t1"] = "done"
    /\ ret["t1"].kind = "ok"
    /\ Len(writes["t1"]) = 2
    /\ InitAfterDrop("t2")
    /\ pc["t2"] = "done"
    /\ ret["t2"].kind = "invalidArgument"
    /\ pre["t2"].elements = pre["t1"].elements
    /\ elements # pre["t1"].elements

(***************************************************************************)
(* SpecSet: two threads each write one slot of a table of two elements.     *)
(***************************************************************************)
\* What the table holds before the writes.
SetContent == <<"F1", "null">>

InitSet == InitTables(<<Holding(maxTableElems, SetContent)>>, 0)

NextSet ==
    \E t \in Threads :
        \/ \E index \in 0 .. Len(SetContent), newValue \in References :
              SetTableElement(t, 1, index, newValue)
        \/ SetLoad(t)
        \/ SetCompareExchange(t)

SpecSet == InitSet /\ [][NextSet]_vars

\* The threads that have returned from a set of slot i.
SetsDone(i) ==
    {t \in Threads : /\ pc[t] = "done"
                     /\ call[t].op = "set"
                     /\ call[t].index = i
                     /\ ret[t].kind = "ok"}

\* How often reference v occurs among the initial value of slot i and the
\* values written to it, and among the values the sets returned and the
\* value the slot holds.
SetGiven(i, v) ==
    (IF SetContent[i + 1] = v THEN 1 ELSE 0)
       + Cardinality({t \in SetsDone(i) : call[t].newValue = v})

SetAccounted(i, v) ==
    (IF AsReference(biasedTableElementValueToObject(elements[1][i])) = v
     THEN 1 ELSE 0)
       + Cardinality({t \in SetsDone(i) : ret[t].object = v})

\* The step of thread t is the compare-exchange with which its set returns.
ExchangeStep(t) ==
    /\ pc[t] = "set_cas"
    /\ call[t].op = "set"
    /\ pc'[t] = "done"
    /\ ret'[t].kind = "ok"

\* C11: set(i, v) is an atomic exchange.  The step with which a set returns
\* stores v in the slot and returns the reference the slot held just before
\* it, null for the uninitialized sentinel; and with any number of sets of
\* one slot done, the values returned and the slot's content are, counted
\* with multiplicity, the slot's initial value and the values written.
C11_SetIsAtomicExchange ==
    /\ [][\A t \in Threads :
            ExchangeStep(t) =>
               /\ ret'[t].object =
                     AsReference(biasedTableElementValueToObject(
                                    elements[1][call[t].index]))
               /\ elements'[1][call[t].index] =
                     objectToBiasedTableElementValue(
                        setTableElementValue(call[t].newValue))]_vars
    /\ [](\A i \in 0 .. (Len(SetContent) - 1), v \in References :
             SetGiven(i, v) = SetAccounted(i, v))

\* Both threads have set slot 0, which held F1: one set replaced F1, the
\* other replaced the value the first had written.
C11_Witness ==
    /\ SetsDone(0) = Threads
    /\ call["t1"].newValue = "F2"
    /\ call["t2"].newValue = "null"
    /\ ret["t1"].object = "F1"
    /\ ret["t2"].object = "F2"

(***************************************************************************)
(* SpecClone: one host thread clones a table into the second compartment,  *)
(* then writes and grows the source and the clone.                         *)
(***************************************************************************)
CloneContent == <<"F1", "null">>

InitClone ==
    \/ \E charged \in {0, QuotaMax - Len(CloneContent)} :
          InitTables(<<[type |-> [min |-> 0, max |-> maxTableElems],
                        content |-> CloneContent, resourceQuota |-> TRUE]>>,
                     charged)
    \/ InitTables(<<Holding(maxTableElems, <<"F2">>)>>, 0)

NextClone ==
    \/ CloneTableObserved(Host, 1, 2)
    \/ CloneCreate(Host)
    \/ CloneCopy(Host)
    \/ CloneUnlock(Host)
    \/ CloneInsert(Host)
    \/ GrowZero(Host)
    \/ GrowQuota(Host)
    \/ GrowLock(Host)
    \/ GrowCheck(Host)
    \/ GrowInitialize(Host)
    \/ GrowPublish(Host)
    \/ DtorCompartment(Host)
    \/ TablesLock(Host)
    \/ CreateRegister(Host)
    \/ DtorRegistry(Host)
    \/ DtorFree(Host)
    \/ DtorQuota(Host)
    \/ \E T \in Tables, d \in 0 .. 1 : GrowTable(Host, "table.grow", T, d, "F1")
    \/ \E T \in Tables, index \in 0 .. MaxDelta, newValue \in {"null", "F2"} : SetTableElement(Host, T, index, newValue)
    \/ SetLoad(Host)
    \/ SetCompareExchange(Host)
    \/ Return(Host)

SpecClone == InitClone /\ [][NextClone]_vars

\* Thread t has returned from a cloneTable that yielded a table.
CloneReturned(t) ==
    /\ pc[t] = "done"
    /\ call[t].op = "clone"
    /\ ret[t].kind = "ok"

\* The table cloneTable returned to t has the size the source had when the
\* call began and has now, holds in each slot below it what the source
\* holds, and is registered in the new compartment under the source's id.
CloneEqualsSource(t) ==
    LET table == call[t].table
        newTable == ret[t].num
    IN  /\ newTable # table
        /\ tableState[newTable] = "alive"
        /\ numElements[newTable] = pre[t].numElements[table]
        /\ numElements[newTable] = numElements[table]
        /\ \A i \in 0 .. (numElements[table] - 1) :
              /\ elements[newTable][i] = elements[table][i]
              /\ getTableElement(newTable, i) = getTableElement(table, i)
        /\ tableId[newTable] = tableId[table]
        /\ tableCompartment[newTable] = call[t].newCompartment
        /\ compartmentTables[call[t].newCompartment][tableId[table]] = newTable

\* A step of a set or a grow of thread t leaves every other table's size and
\* slots as they are.
LeavesOtherTables(t) ==
    (call[t].op \in {"set", "grow"} /\ pc[t] # "done" /\ pc[t] # "idle")
       => \A other \in Tables \ {loc[t].table} :
             /\ numElements'[other] = numElements[other]
             /\ elements'[other] = elements[other]

\* C13: with nothing else running on the source, the table cloneTable
\* returns has the source's size, the source's reference in each slot below
\* it and the source's id in the new compartment; afterwards a set or grow
\* of one of the two tables changes no size and no slot of the other.
C13_CloneEqualsSourceThenIndependent ==
    /\ [](\A t \in Threads : CloneReturned(t) => CloneEqualsSource(t))
    /\ [][\A t \in Threads : LeavesOtherTables(t)]_vars

\* A clone of <<F1, null>> has been returned, and later the source's first
\* slot was set to F2 while the clone still holds F1.
C13_Witness ==
    /\ tableState[2] = "alive"
    /\ tableId[2] = tableId[1]
    /\ compartmentTables[2][tableId[1]] = 2
    /\ numElements[2] = Len(CloneContent)
    /\ getTableElement(2, 1).object = "null"
    /\ getTableElement(1, 0).object = "F2"
    /\ getTableElement(2, 0).object = "F1"
    /\ pc[Host] = "done"
    /\ call[Host].op = "set"

(***************************************************************************)
(* SpecCloneRace: one thread clones a table while the other runs one       *)
(* table.fill on it.                                                       *)
(***************************************************************************)
Cloner == "t1"
Writer == "t2"

RaceContent == <<"F1", "F1">>

InitCloneRace == InitTables(<<Holding(maxTableElems, RaceContent)>>, 0)

NextCloneRace ==
    \/ CloneTableObserved(Cloner, 1, 2)
    \/ CloneCreate(Cloner)
    \/ GrowQuota(Cloner)
    \/ GrowLock(Cloner)
    \/ GrowCheck(Cloner)
    \/ GrowPublish(Cloner)
    \/ CloneCopy(Cloner)
    \/ CloneUnlock(Cloner)
    \/ CloneInsert(Cloner)
    \/ DtorCompartment(Cloner)
    \/ TablesLock(Cloner)
    \/ CreateRegister(Cloner)
    \/ DtorRegistry(Cloner)
    \/ DtorFree(Cloner)
    \/ DtorQuota(Cloner)
    \/ \E value \in {"null", "F2"} : TableFillObserved(Writer, 0, value, Len(RaceContent), 1)
    \/ SetLoad(Writer)
    \/ SetCompareExchange(Writer)

SpecCloneRace == InitCloneRace /\ [][NextCloneRace]_vars

\* The words of the source after the first j writes of the writer's
\* table.fill.
SourceAfter(j) ==
    [i \in Slots |->
       LET hits == {m \in 1 .. j : writes[Writer][m][1] = 1
                                     /\ writes[Writer][m][2] = i}
       IN  IF hits = {}
           THEN pre[Writer].elements[1][i]
           ELSE writes[Writer][CHOOSE m \in hits : \A o \in hits : o <= m][3]]

\* The contents the source has had since the cloner's call began: its
\* contents then, and its contents after each later write of the writer.
SourceSince ==
    IF pre[Writer] = NoPre
    THEN {elements[1]}
    ELSE LET all == 0 .. Len(writes[Writer])
             began == {j \in all : SourceAfter(j) = pre[Cloner].elements[1]}
         IN  {SourceAfter(j) : j \in {m \in all : \E b \in began : b <= m}}

\* C14: the table cloneTable returns has the size and, in every valid slot,
\* the contents that the source had at one instant since the call began,
\* whatever the other thread does to the source meanwhile.
C14_CloneIsAtomicSnapshot ==
    CloneReturned(Cloner) =>
       LET newTable == ret[Cloner].num
       IN  /\ numElements[newTable] = numElements[1]
           /\ \E source \in SourceSince :
                 \A i \in 0 .. (numElements[1] - 1) :
                    elements[newTable][i] = source[i]

(***************************************************************************)
(* SpecLife: two threads create, grow, clone and delete tables.            *)
(***************************************************************************)
LifeTypes == {[min |-> 1, max |-> 1], [min |-> 0, max |-> MaxDelta]}

NextLife ==
    \E t \in Threads :
       \/ \E type \in LifeTypes, resourceQuota \in BOOLEAN : CreateTable(t, type, "null", resourceQuota)
       \/ CreateAdd(t)
       \/ \E T \in Tables : CloneTable(t, T, 2)
       \/ CloneCreate(t)
       \/ CloneCopy(t)
       \/ CloneUnlock(t)
       \/ CloneInsert(t)
       \/ \E T \in Tables, d \in 0 .. MaxDelta : GrowTable(t, "table.grow", T, d, "F1")
       \/ GrowZero(t)
       \/ GrowQuota(t)
       \/ GrowLock(t)
       \/ GrowCheck(t)
       \/ GrowInitialize(t)
       \/ GrowPublish(t)
       \/ \E T \in Tables : DeleteTable(t, T)
       \/ DtorCompartment(t)
       \/ TablesLock(t)
       \/ CreateRegister(t)
       \/ DtorRegistry(t)
       \/ DtorFree(t)
       \/ DtorQuota(t)
       \/ Return(t)

\* The elements of the quota held by tables outside the model.
LifeCharged == 1

InitLife == InitTables(<<>>, LifeCharged)

SpecLife == InitLife /\ [][NextLife]_vars

\* C15: in every state every table's element count is at most its type's
\* maximum and at most the implementation's maximum, whatever creates,
\* grows, clones and deletes have run or are running; a rejected grow shows
\* no larger count in between.
C15_CountWithinMax ==
    \A T \in Tables :
       /\ numElements[T] <= tableType[T].max
       /\ numElements[T] <= maxTableElems

\* A grow of a table that is at its type's maximum has been rejected, while
\* the table's clone, of the same size, exists.
C15_Witness ==
    \E t \in Threads :
       /\ pc[t] = "done"
       /\ call[t].op = "grow"
       /\ call[t].numElementsToGrow > 0
       /\ ret[t].kind = "false"
       /\ numElements[call[t].table] = tableType[call[t].table].max
       /\ tableType[call[t].table].max < maxTableElems
       /\ \E newTable \in LiveTables \ {call[t].table} :
             /\ tableCompartment[newTable] = 2
             /\ numElements[newTable] = numElements[call[t].table]

\* C16 (invariant I1): in every state, every slot below the published count
\* of every table, a table cloneTable is building included, decodes to a
\* function or to the uninitialized sentinel, never to the out-of-bounds
\* sentinel.
C16_ValidSlotsHoldReferences ==
    \A T \in Tables :
       tableState[T] = "alive" =>
          \A i \in 0 .. (numElements[T] - 1) :
             biasedTableElementValueToObject(elements[T][i])
                \in Functions \cup {getUninitializedElement}

ProbedAddresses ==
    UNION {{BaseAddress(T) - 1, BaseAddress(T),
            BaseAddress(T) + ElementBytes + 1,
            BaseAddress(T) + ReservedElems * ElementBytes - 1,
            BaseAddress(T) + ReservedElems * ElementBytes} : T \in Tables}

NextRegistry ==
    \/ \E type \in LifeTypes : CreateTable(Host, type, "null", FALSE)
    \/ CreateAdd(Host)
    \/ \E T \in Tables : CloneTable(Host, T, 2)
    \/ CloneCreate(Host)
    \/ CloneCopy(Host)
    \/ CloneUnlock(Host)
    \/ CloneInsert(Host)
    \/ GrowZero(Host)
    \/ GrowQuota(Host)
    \/ GrowLock(Host)
    \/ GrowCheck(Host)
    \/ GrowInitialize(Host)
    \/ GrowPublish(Host)
    \/ \E T \in Tables : DeleteTable(Host, T)
    \/ DtorCompartment(Host)
    \/ TablesLock(Host)
    \/ CreateRegister(Host)
    \/ DtorRegistry(Host)
    \/ DtorFree(Host)
    \/ DtorQuota(Host)
    \/ \E address \in ProbedAddresses : IsAddressOwnedByTable(Writer, address)
    \/ TablesLock(Writer)
    \/ IsAddressOwnedByTableScan(Writer)
    \/ \E t \in Threads : Return(t)

SpecRegistry == InitLife /\ [][NextRegistry]_vars

\* Table T is in the global array and the address lies in its element range.
OwnsAddress(T, address) ==
    /\ \E i \in 1 .. Len(tables) : tables[i] = T
    /\ address >= BaseAddress(T)
    /\ address < BaseAddress(T) + ReservedElems * ElementBytes

\* The step of thread t is the scan and return of isAddressOwnedByTable.
OwnerStep(t) ==
    /\ pc[t] = "owned_scan"
    /\ pc'[t] = "done"
    /\ call'[t].op = "isAddressOwnedByTable"

\* C18: isAddressOwnedByTable(address) returns true with (T, k) exactly when
\* T is in the global array and the address lies in T's element range, k
\* being the offset from the range's base in elements; it returns false
\* when no table of the array holds the address; a table it returns has not
\* been destroyed and its pages have not been freed.
C18_OwnerIsRegisteredTable ==
    [][\A t \in Threads :
          OwnerStep(t) =>
             LET address == call'[t].address
                 r == ret'[t]
             IN  /\ r.kind \in {"true", "false"}
                 /\ r.kind = "true" <=>
                       \E T \in Tables : OwnsAddress(T, address)
                 /\ r.kind = "true" =>
                       /\ OwnsAddress(r.table, address)
                       /\ r.num = (address - BaseAddress(r.table))
                                     \div ElementBytes
                       /\ tableState[r.table] = "alive"
                       /\ reservation[r.table] = "reserved"]_vars

\* An address inside the second element of the first table has been found
\* owned by no table, the first table having been created and deleted; and
\* the clone of it is still registered.
C18_Witness ==
    /\ pc[Writer] = "done"
    /\ call[Writer].op = "isAddressOwnedByTable"
    /\ call[Writer].address = BaseAddress(1) + ElementBytes + 1
    /\ ret[Writer].kind = "false"
    /\ reservation[1] = "released"
    /\ isAddressOwnedByTable(BaseAddress(2) + ElementBytes + 1)
          = [kind |-> "true", table |-> 2, num |-> 1]

(***************************************************************************)
(* SpecPublish: one thread grows and writes a table while the other reads  *)
(* its size and then its slots.                                            *)
(***************************************************************************)
Grower == "t1"
Reader == "t2"

\* The reader takes a result; the size it has read last is kept as history.
ReturnKeepingSize(t) ==
    /\ return(t)
    /\ prev' = IF call[t].op = "size"
               THEN [prev EXCEPT ![t] =
                       [call |-> call[t], pre |-> pre[t], ret |-> ret[t]]]
               ELSE prev

InitPublish ==
    InitTables(<<Created([min |-> 0, max |-> maxTableElems], "null", FALSE)>>, 0)

NextPublish ==
    \/ \E numElementsToGrow \in 0 .. MaxDelta, initialValue \in {"null", "F2"} : GrowTable(Grower, "table.grow", 1, numElementsToGrow, initialValue)
    \/ GrowZero(Grower)
    \/ GrowQuota(Grower)
    \/ GrowLock(Grower)
    \/ GrowCheck(Grower)
    \/ GrowInitialize(Grower)
    \/ GrowPublish(Grower)
    \/ \E index \in 0 .. MaxDelta, newValue \in {"null", "F1"} : SetTableElement(Grower, 1, index, newValue)
    \/ SetLoad(Grower)
    \/ SetCompareExchange(Grower)
    \/ Return(Grower)
    \/ GetTableNumElements(Reader, 1)
    \/ \E index \in Slots : GetTableElement(Reader, 1, index)
    \/ ReturnKeepingSize(Reader)

SpecPublish == InitPublish /\ [][NextPublish]_vars

\* The step of thread t is a get of a slot below the size that t has read
\* from the same table before.
GetBelowSizeRead(t) ==
    /\ pc[t] = "idle"
    /\ pc'[t] = "done"
    /\ call'[t].op = "get"
    /\ prev[t].call.op = "size"
    /\ prev[t].call.table = call'[t].table
    /\ call'[t].index < prev[t].ret.num

\* C19: grow publishes the new count only after it has initialized every new
\* slot: once a thread has read the size n' of a table that changes only by
\* grow and set, each of its later gets of an index below n' returns a
\* reference or null and does not raise OutOfBoundsTableAccess.
C19_GetBelowSizeReadSucceeds ==
    [][\A t \in Threads :
          GetBelowSizeRead(t) =>
             /\ ret'[t].kind = "ok"
             /\ ret'[t].object \in References]_vars

\* The reader has read a size that a grow had published and then got the
\* grow's initial element from the last slot below it, while the next grow
\* has initialized a slot that it has not yet published.
C19_Witness ==
    /\ pc[Reader] = "done"
    /\ call[Reader].op = "get"
    /\ prev[Reader].call.op = "size"
    /\ prev[Reader].ret.num > 0
    /\ call[Reader].index = prev[Reader].ret.num - 1
    /\ ret[Reader] = Result("ok", "F2", call[Reader].index)
    /\ pc[Grower] = "grow_init"
    /\ loc[Grower].k > loc[Grower].oldNumElements
    /\ numElements[1] = prev[Reader].ret.num

(***************************************************************************)
(* SpecGrowRace: each of two threads grows the same table once.            *)
(***************************************************************************)
GrowRaceContent == <<"F1">>

InitGrowRace == InitTables(<<Holding(maxTableElems, GrowRaceContent)>>, 0)

NextGrowRace ==
    \E t \in Threads :
       \/ \E numElementsToGrow \in 1 .. MaxDelta, initialValue \in {"null", "F2"} : GrowTable(t, "table.grow", 1, numElementsToGrow, initialValue)
       \/ GrowQuota(t)
       \/ GrowLock(t)
       \/ GrowCheck(t)
       \/ GrowInitialize(t)
       \/ GrowPublish(t)

SpecGrowRace == InitGrowRace /\ [][NextGrowRace]_vars

\* The threads whose grow has returned true.
GrowsSucceeded == {t \in Threads : pc[t] = "done" /\ ret[t].kind = "true"}

RECURSIVE ElementsGrown(_)
\* The sum of the numbers of elements the grows of the threads of S asked for.
ElementsGrown(S) ==
    IF S = {}
    THEN 0
    ELSE LET t == CHOOSE u \in S : TRUE
         IN  call[t].numElementsToGrow + ElementsGrown(S \ {t})

\* The slots the grow of thread t has added.
GrownRange(t) == ret[t].num .. (ret[t].num + call[t].numElementsToGrow - 1)

\* C20: concurrent grows of a table are serialized.  In every state the
\* table's size is its first size plus what the grows that have succeeded
\* asked for; the old counts these grows report are the sums that one
\* ordering of them accumulates, so they differ from one another; and the
\* ranges of slots they have added are disjoint, each holding the initial
\* element of its grow.
C20_GrowsAreSerialized ==
    LET done == GrowsSucceeded
        orders == {order \in [1 .. Cardinality(done) -> done] :
                      \A i, j \in 1 .. Cardinality(done) :
                         order[i] = order[j] => i = j}
    IN  /\ numElements[1] = Len(GrowRaceContent) + ElementsGrown(done)
        /\ \E order \in orders :
              \A j \in 1 .. Cardinality(done) :
                 ret[order[j]].num =
                    Len(GrowRaceContent)
                       + ElementsGrown({order[m] : m \in 1 .. (j - 1)})
        /\ \A t, u \in done :
              t # u => GrownRange(t) \cap GrownRange(u) = {}
        /\ \A t \in done :
              \A i \in GrownRange(t) :
                 biasedTableElementValueToObject(elements[1][i])
                    = call[t].initialElement

\* Both threads' grows, of one element each, have succeeded.
C20_Witness ==
    /\ GrowsSucceeded = Threads
    /\ \A t \in Threads : call[t].numElementsToGrow = 1
    /\ {ret[t].num : t \in Threads}
          = {Len(GrowRaceContent), Len(GrowRaceContent) + 1}
    /\ numElements[1] = Len(GrowRaceContent) + 2
    /\ call["t1"].initialElement # call["t2"].initialElement

(***************************************************************************)
(* The committed prefix.                                                   *)
(***************************************************************************)
\* The count the pages of table T have been committed for: the count a grow
\* in progress is about to publish, or else the published count.
CommittedCount(T) ==
    IF \E t \in Threads : pc[t] = "grow_init" /\ loc[t].table = T
    THEN LET t == CHOOSE u \in Threads : pc[u] = "grow_init" /\ loc[u].table = T
         IN  loc[t].oldNumElements + loc[t].n
    ELSE numElements[T]

\* The step of thread t is the commit of a grow that goes on to initialize.
CommitStep(t) ==
    /\ pc[t] = "grow_check"
    /\ pc'[t] = "grow_init"

\* C21 (invariant I4): in every state the committed pages of a table are a
\* prefix of its reservation that holds every element below its count and
\* no page beyond them; the commit of a successful grow asks for pages none
\* of which is committed yet, and after it the committed pages are those
\* committed before and those asked for.
C21_CommittedPrefixCoversCount ==
    /\ [](\A T \in Tables :
            /\ \A i \in 0 .. (numElements[T] - 1) : ~Faults(T, i)
            /\ \A p \in committedPages[T] :
                  /\ \A q \in 0 .. p : q \in committedPages[T]
                  /\ \E i \in 0 .. (CommittedCount(T) - 1) : PageOfElement(i) = p)
    /\ [][\A t \in Threads :
            CommitStep(t) =>
               LET T == loc[t].table
                   asked == commitRange(
                              getNumPlatformPages(numElements[T] * ElementBytes),
                              getNumPlatformPages(
                                 (numElements[T] + loc[t].n) * ElementBytes))
               IN  /\ asked \cap committedPages[T] = {}
                   /\ committedPages'[T] = committedPages[T] \cup asked
                   /\ \A i \in 0 .. (numElements[T] + loc[t].n - 1) :
                         PageOfElement(i) \in committedPages'[T]]_vars

\* A grow from two elements to three has returned true: the second page has
\* been committed by it, the first by an earlier grow.
C21_Witness ==
    /\ pc[Host] = "done"
    /\ call[Host].op = "grow"
    /\ ret[Host] = Result("true", "null", 2)
    /\ call[Host].numElementsToGrow = 1
    /\ numElements[1] = 3
    /\ committedPages[1] = {0, 1}

(***************************************************************************)
(* The global array of tables.                                             *)
(***************************************************************************)
\* How often table T appears in the global array.
Occurrences(T) == Cardinality({i \in 1 .. Len(tables) : tables[i] = T})

\* The destructor of table T is at one of the given steps.
DestructorAt(T, steps) ==
    \E t \in Threads : pc[t] \in steps /\ loc[t].table = T

\* The destructor of table T has started, or has run to its end.
DestructorStarted(T) ==
    \/ tableState[T] = "deleted"
    \/ DestructorAt(T, {"dtor_compartment", "dtor_registry", "dtor_erase", "dtor_free",
                        "dtor_quota"})

\* The destructor of table T is past its removal from the global array.
DestructorPastRegistry(T) ==
    \/ tableState[T] = "deleted"
    \/ DestructorAt(T, {"dtor_free", "dtor_quota"})

\* createTableImpl has reserved the pages of table T and has not yet added
\* it to the global array: only the creating thread knows the table.
RegistrationPending(T) ==
    \E t \in Threads :
       pc[t] \in {"create_lock", "create_register"} /\ loc[t].table = T

\* C22 as stated (invariant I6): in every state a table whose reservation
\* succeeded and whose destructor has not started is in the global array
\* exactly once, a table whose destructor is past the removal is in it zero
\* times, and the array holds no table twice and no table whose reservation
\* has been released.
C22_Original_ReservedTablesAreRegistered ==
    \A T \in Tables :
       /\ (reservation[T] = "reserved" /\ ~DestructorStarted(T))
             => Occurrences(T) = 1
       /\ DestructorPastRegistry(T) => Occurrences(T) = 0
       /\ Occurrences(T) <= 1
       /\ Occurrences(T) = 1 => reservation[T] = "reserved"

\* C22 (invariant I6): in every state a table whose reservation succeeded,
\* that createTableImpl has added to the global array and whose destructor
\* has not started is in the array exactly once; a table between its
\* reservation and that addition, or whose destructor is past the removal,
\* is in it zero times; and the array holds no table twice and no table
\* whose reservation has been released.
C22_RegistryHoldsLiveTablesOnce ==
    \A T \in Tables :
       /\ (reservation[T] = "reserved" /\ ~DestructorStarted(T)
              /\ ~RegistrationPending(T))
             => Occurrences(T) = 1
       /\ RegistrationPending(T) => Occurrences(T) = 0
       /\ DestructorPastRegistry(T) => Occurrences(T) = 0
       /\ Occurrences(T) <= 1
       /\ Occurrences(T) = 1 => reservation[T] = "reserved"

\* The first table has been created and deleted, its reservation released;
\* its clone is the only table of the global array, while the destructor of
\* no table is running.
C22_Witness ==
    /\ tableState[1] = "deleted"
    /\ reservation[1] = "released"
    /\ tables = <<2>>
    /\ tableCompartment[2] = 2
    /\ reservation[2] = "reserved"
    /\ ~DestructorStarted(2)

\* Table T is in the global array and the address lies in the guard page
\* that follows its reserved elements.
GuardPageOf(T, address) ==
    /\ \E i \in 1 .. Len(tables) : tables[i] = T
    /\ address >= BaseAddress(T) + ReservedElems * ElementBytes
    /\ address < BaseAddress(T) + ReservedElems * ElementBytes
                    + 2 ^ PageSizeLog2

\* C23: for an address in the trailing guard page of a table of the global
\* array, isAddressOwnedByTable answers true with that table.
C23_GuardPageIsOwned ==
    [][\A t \in Threads :
          OwnerStep(t) =>
             \A T \in Tables :
                GuardPageOf(T, call'[t].address) =>
                   /\ ret'[t].kind = "true"
                   /\ ret'[t].table = T]_vars

\* Table T is in the table map of some compartment.
InCompartment(T) ==
    \E compartment \in Compartments, id \in CompartmentIds :
       compartmentTables[compartment][id] = T

\* C24: whenever a destructor releases the reservation of a table, the
\* table has already left its compartment's table map and the global array;
\* and in no state does isAddressOwnedByTable answer with a table whose
\* reservation has been released.
C24_ReleaseAfterRemoval ==
    /\ [][\A T \in Tables :
            (reservation[T] = "reserved" /\ reservation'[T] # "reserved")
               => /\ reservation'[T] = "released"
                  /\ ~InCompartment(T)
                  /\ Occurrences(T) = 0]_vars
    /\ [](\A address \in ProbedAddresses :
            isAddressOwnedByTable(address).kind = "true"
               => reservation[isAddressOwnedByTable(address).table]
                     = "reserved")

\* The destructor of a table that had been added to a compartment has just
\* released the reservation, and the other thread's lookup of an address of
\* that table has answered false.
C24_Witness ==
    /\ pc[Host] = "dtor_quota"
    /\ call[Host].op = "delete"
    /\ reservation[call[Host].table] = "released"
    /\ ~InCompartment(call[Host].table)
    /\ Occurrences(call[Host].table) = 0
    /\ pc[Writer] = "done"
    /\ call[Writer].op = "isAddressOwnedByTable"
    /\ call[Writer].address = BaseAddress(call[Host].table)
    /\ ret[Writer].kind = "false"

(***************************************************************************)
(* The quota's account.                                                    *)
(***************************************************************************)
\* No call is in progress on any thread.
Quiescent == \A t \in Threads : pc[t] \in {"idle", "done"}

RECURSIVE ElementsCharged(_)
\* The sum of the sizes of the tables of S that charge the quota.
ElementsCharged(S) ==
    IF S = {}
    THEN 0
    ELSE LET T == CHOOSE U \in S : TRUE
         IN  (IF hasQuota[T] THEN numElements[T] ELSE 0)
                + ElementsCharged(S \ {T})

\* C25: in every state with no call in progress, the elements charged to
\* the quota are the sum of the sizes of the live tables that use it,
\* clones included; so a destroyed table has given back its size, and with
\* every table destroyed the quota is back at its first value.
C25_QuotaEqualsLiveSizes ==
    Quiescent =>
       quotaCurrent = LifeCharged
                        + ElementsCharged({T \in Tables : tableState[T] = "alive"})

\* A table charged to the quota was cloned and then deleted; its clone, of
\* two elements, is what the quota is still charged for.
C25_Witness ==
    /\ Quiescent
    /\ tableState[1] = "deleted"
    /\ reservation[1] = "released"
    /\ hasQuota[1]
    /\ numElements[1] > 0
    /\ tableState[2] = "alive"
    /\ tableCompartment[2] = 2
    /\ hasQuota[2]
    /\ numElements[2] = 2
    /\ quotaCurrent = LifeCharged + 2

(***************************************************************************)
(* createTable failing.                                                    *)
(***************************************************************************)
\* Thread t has returned from a createTable that yielded null.
CreateFailed(t) ==
    pc[t] = "done" /\ call[t].op = "create" /\ ret[t].kind = "null"

\* C26: when createTable has returned null, whichever step failed (the
\* reservation, the grow to type.min, the compartment's id), the table is
\* not in the global array and not in a compartment's map, the quota is
\* charged what it was charged before the call, and no reservation of the
\* table is left: one that was obtained has been released.
C26_FailedCreateIsUndone ==
    \A t \in Threads :
        CreateFailed(t) =>
            LET T == call[t].table
            IN  /\ ret[t] = Result("null", "null", 0)
                /\ tableState[T] = "deleted"
                /\ Occurrences(T) = 0
                /\ ~InCompartment(T)
                /\ tableId[T] = NoId
                /\ quotaCurrent = pre[t].quota
                /\ reservation[T] \in {"released", "released_null"}
                /\ reservation[T] = "released_null" => numElements[T] = 0

\* A createTable with a quota reserved the table and grew it to two
\* elements, the compartment then had no id to give: null was returned with
\* the two elements refunded and the reservation released.
C26_Witness ==
    \E t \in Threads :
        /\ CreateFailed(t)
        /\ hasQuota[call[t].table]
        /\ call[t].type.min = 2
        /\ numElements[call[t].table] = 2
        /\ reservation[call[t].table] = "released"
        /\ quotaCurrent = pre[t].quota

(***************************************************************************)
(* SpecCloneGrow: one thread clones a table while the other grows it and   *)
(* writes its slots.                                                       *)
(***************************************************************************)
NextCloneGrow ==
    \/ CloneTable(Cloner, 1, 2)
    \/ CloneCreate(Cloner)
    \/ CloneCopy(Cloner)
    \/ CloneUnlock(Cloner)
    \/ CloneInsert(Cloner)
    \/ DtorCompartment(Cloner)
    \/ TablesLock(Cloner)
    \/ CreateRegister(Cloner)
    \/ DtorRegistry(Cloner)
    \/ DtorFree(Cloner)
    \/ DtorQuota(Cloner)
    \/ \E numElementsToGrow \in 0 .. MaxDelta :
          GrowTable(Writer, "table.grow", 1, numElementsToGrow, "F2")
    \/ \E index \in 0 .. Len(RaceContent), newValue \in {"null", "F2"} :
          SetTableElement(Writer, 1, index, newValue)
    \/ TableFill(Writer, 0, "F2", Len(RaceContent), 1)
    \/ SetLoad(Writer)
    \/ SetCompareExchange(Writer)
    \/ \E t \in Threads :
          \/ GrowZero(t)
          \/ GrowQuota(t)
          \/ GrowLock(t)
          \/ GrowCheck(t)
          \/ GrowInitialize(t)
          \/ GrowPublish(t)
    \/ Return(Writer)

SpecCloneGrow == InitCloneRace /\ [][NextCloneGrow]_vars

\* Thread t is in cloneTable between its read of the source's count and the
\* end of the scope of its lock on the source.
CloneHoldsSource(t) ==
    /\ call[t].op = "clone"
    /\ pc[t] \notin {"idle", "clone_lock", "clone_insert", "done"}

\* Thread u is in the loop of setTableElementNonNull on table T, for a set,
\* a table.fill or a table.copy.
WritingSlotOf(u, T) ==
    /\ pc[u] \in {"set_load", "set_cas"}
    /\ loc[u].table = T

\* C27: from cloneTable's read of the source's count until its copy loop
\* has finished and the lock is given up, the cloner holds the source's
\* resizing mutex and the source's count is the count that was read; a grow
\* of the source by a positive number cannot take the mutex meanwhile,
\* while a write of one of the source's slots can take its next step; and
\* during the copy, its end included, the clone's count is the source's.
C27_CloneBlocksGrowersOnly ==
    \A t \in Threads :
       CloneHoldsSource(t) =>
          LET table == call[t].table
          IN  /\ resizingMutex[table] = t
              /\ numElements[table] = loc[t].n
              /\ pc[t] = "clone_copy" =>
                    numElements[loc[t].table] = numElements[table]
              /\ \A u \in Threads \ {t} :
                    /\ (pc[u] = "grow_lock" /\ loc[u].table = table)
                          => ~ENABLED GrowLock(u)
                    /\ WritingSlotOf(u, table)
                          => ENABLED (SetLoad(u) \/ SetCompareExchange(u))

\* The copy loop has copied both elements and the lock is still held; the
\* other thread stored a function in the source's first slot after that slot
\* had been copied, and now waits for the mutex in a grow by one element.
C27_Witness ==
    /\ CloneHoldsSource(Cloner)
    /\ pc[Cloner] = "clone_copy"
    /\ loc[Cloner].k = 2
    /\ numElements[loc[Cloner].table] = 2
    /\ numElements[1] = 2
    /\ elements[1][0] = objectToBiasedTableElementValue("F2")
    /\ elements[loc[Cloner].table][0] = objectToBiasedTableElementValue("F1")
    /\ pc[Writer] = "grow_lock"
    /\ loc[Writer].table = 1
    /\ call[Writer].op = "grow"

(***************************************************************************)
(* The order of the locks.                                                 *)
(***************************************************************************)
\* The step takes a resizing mutex for thread t.
AcquiresResizingMutex(t) ==
    \E T \in Tables : resizingMutex[T] # t /\ resizingMutex'[T] = t

\* The step takes the elem-segments mutex for thread t.
AcquiresElemSegmentsMutex(t) ==
    elemSegmentsMutex # t /\ elemSegmentsMutex' = t

\* The step of thread t is one that takes a compartment's mutex: the
\* insertion of createTable and that of cloneTable, which run under it, and
\* a step after which the thread holds it.
AcquiresCompartmentMutex(t) ==
    \/ pc[t] \in {"create_add", "clone_insert"} /\ pc'[t] # pc[t]
    \/ \E compartment \in Compartments :
          /\ compartmentMutex[compartment] # t
          /\ compartmentMutex'[compartment] = t

\* C28: a thread that holds tablesMutex is in the critical section of
\* createTableImpl, of ~Table or of isAddressOwnedByTable, and no step it
\* takes while holding it acquires a resizing mutex, a compartment's mutex
\* or an elem-segments mutex: its next step ends the critical section.
C28_RegistryLockIsInnermost ==
    /\ [](\A t \in Threads :
             tablesMutex = t =>
                pc[t] \in {"create_register", "dtor_erase", "owned_scan"})
    /\ [][\A t \in Threads :
             tablesMutex = t =>
                /\ ~AcquiresResizingMutex(t)
                /\ ~AcquiresCompartmentMutex(t)
                /\ ~AcquiresElemSegmentsMutex(t)
                /\ pc'[t] # pc[t] => tablesMutex' = NoThread]_vars

\* cloneTable, holding the source's resizing mutex, is in createTableImpl
\* with tablesMutex held, about to add the clone to the global array, while
\* the other thread waits for tablesMutex in isAddressOwnedByTable.
C28_Witness ==
    /\ tablesMutex = Host
    /\ pc[Host] = "create_register"
    /\ call[Host].op = "clone"
    /\ resizingMutex[call[Host].table] = Host
    /\ pc[Writer] = "owned_lock"

(***************************************************************************)
(* SpecSlots: one thread grows and clones a table while the other reads    *)
(* and writes its slots with get, set, table.fill, table.copy, table.init. *)
(***************************************************************************)
NextSlots ==
    \/ GrowTable(Cloner, "table.grow", 1, 1, "F2")
    \/ CloneTable(Cloner, 1, 2)
    \/ CloneCreate(Cloner)
    \/ TablesLock(Cloner)
    \/ CreateRegister(Cloner)
    \/ CloneCopy(Cloner)
    \/ CloneUnlock(Cloner)
    \/ CloneInsert(Cloner)
    \/ DtorCompartment(Cloner)
    \/ DtorRegistry(Cloner)
    \/ DtorFree(Cloner)
    \/ DtorQuota(Cloner)
    \/ GrowQuota(Cloner)
    \/ GrowLock(Cloner)
    \/ GrowCheck(Cloner)
    \/ GrowInitialize(Cloner)
    \/ GrowPublish(Cloner)
    \/ \E index \in 0 .. Len(RaceContent) : GetTableElement(Writer, 1, index)
    \/ \E index \in Indices : SetTableElement(Writer, 1, index, "F2")
    \/ TableFill(Writer, 0, "null", Len(RaceContent), 1)
    \/ TableCopy(Writer, 1, 0, 1, 1, 1)
    \/ CopyGet(Writer)
    \/ TableInit(Writer, 0, 0, 1, 1, 0)
    \/ InitCapture(Writer)
    \/ InitElem(Writer)
    \/ SetLoad(Writer)
    \/ SetCompareExchange(Writer)
    \/ \E t \in Threads : Return(t)

SpecSlots == InitCloneRace /\ [][NextSlots]_vars

\* Thread t holds none of the mutexes.
HoldsNoMutex(t) ==
    /\ \A T \in Tables : resizingMutex[T] # t
    /\ tablesMutex # t
    /\ \A compartment \in Compartments : compartmentMutex[compartment] # t
    /\ elemSegmentsMutex # t

\* Thread t is at a read or a write of a slot: in setTableElementNonNull,
\* or at the read of table.copy.
AtSlotAccess(t) == pc[t] \in {"set_load", "set_cas", "copy_get"}

\* Another thread than t holds the resizing mutex of table T.
ResizingHeldByOther(t, T) ==
    resizingMutex[T] \in Threads \ {t}

\* C29: a thread in a get, a set, a table.copy or a table.fill holds no
\* mutex and none of its steps takes one; a table.init holds no mutex from
\* its first slot write on; and while another thread holds the table's
\* resizing mutex, in a grow or in a clone, a get can be made and a write
\* that is under way can take its next step.
C29_SlotAccessTakesNoLock ==
    /\ [](\A t \in Threads :
             /\ call[t].op \in {"get", "set", "copy", "fill"}
                   => HoldsNoMutex(t)
             /\ AtSlotAccess(t) => HoldsNoMutex(t)
             /\ (AtSlotAccess(t) /\ ResizingHeldByOther(t, loc[t].table))
                   => ENABLED (SetLoad(t) \/ SetCompareExchange(t)
                                 \/ CopyGet(t))
             /\ (pc[t] = "idle" /\ ResizingHeldByOther(t, 1))
                   => \A index \in Slots :
                         ENABLED GetTableElement(t, 1, index))
    /\ [][\A t \in Threads :
             call'[t].op \in {"get", "set", "copy", "fill"} =>
                /\ ~AcquiresResizingMutex(t)
                /\ ~AcquiresElemSegmentsMutex(t)
                /\ tablesMutex' # t]_vars

\* While the cloner holds the source's resizing mutex in its copy loop, the
\* writer has returned from a set of the source's second slot, which now
\* holds the new function.
C29_Witness ==
    /\ pc[Cloner] = "clone_copy"
    /\ resizingMutex[1] = Cloner
    /\ pc[Writer] = "done"
    /\ call[Writer].op = "set"
    /\ call[Writer].index = 1
    /\ ret[Writer].kind = "ok"
    /\ elements[1][1] = objectToBiasedTableElementValue("F2")
    /\ elements[loc[Cloner].table][0] = objectToBiasedTableElementValue("F1")

(***************************************************************************)
(* A grow by zero elements.                                                *)
(***************************************************************************)
\* The call thread t is in after the step is a growTable or table.grow by
\* zero elements, and the step is one of that call.
GrowByZeroStep(t) ==
    /\ call'[t].op = "grow"
    /\ call'[t].numElementsToGrow = 0
    /\ pc'[t] # pc[t]

\* C30: a grow by zero elements returns from growTableImpl in one step,
\* which succeeds and reports the count of that moment as the old count;
\* no step of the call changes a count, a slot, a committed page, the
\* quota's consumption or the holder of a mutex: the quota is not asked and
\* the resizing mutex is not taken, whatever the quota and type.max allow.
C30_GrowByZeroChangesNothing ==
    [][\A t \in Threads :
          GrowByZeroStep(t) =>
             /\ UNCHANGED <<tableVars, numElements, elements, committedPages,
                            quotaCurrent, resizingMutex, segVars>>
             /\ pc[t] = "grow_begin" =>
                   /\ pc'[t] = "done"
                   /\ ret'[t] = Result("true", "null",
                                       numElements[call[t].table])]_vars

\* A table.grow by zero elements has succeeded on a table charged to a
\* quota that has no element left, reporting the two elements of the table.
C30_Witness ==
    \E t \in Threads :
       /\ pc[t] = "done"
       /\ call[t].op = "grow"
       /\ call[t].api = "table.grow"
       /\ call[t].numElementsToGrow = 0
       /\ hasQuota[call[t].table]
       /\ quotaCurrent = QuotaMax
       /\ numElements[call[t].table] = 2
       /\ ret[t] = Result("true", "null", 2)

(***************************************************************************)
(* Writes refused by the out-of-bounds sentinel.                           *)
(***************************************************************************)
\* The step is one of thread t.
StepOf(t) == pc'[t] # pc[t] \/ loc'[t] # loc[t]

\* The step stores a non-zero word in a slot that holds zero.
FillsZeroSlot(T, i) == elements[T][i] = 0 /\ elements'[T][i] # 0

\* C31: a write of set, table.fill, table.copy or table.init that finds
\* its index at or past the reserved count, or on a page that is not
\* committed, or that has loaded a word decoding to the out-of-bounds
\* sentinel, raises outOfBoundsTableAccess and changes no slot; and a slot
\* holding zero is given a non-zero word only by the initialization of a
\* grow and by the copy loop of a clone.
C31_OutOfBoundsSlotRefusesWrite ==
    [][/\ \A t \in Threads :
             LET T == loc[t].table
                 index == loc[t].index
                 refused ==
                    \/ /\ pc[t] = "set_load"
                       /\ \/ index >= numReservedElements[T]
                          \/ Faults(T, branchlessMin(index,
                                          numReservedElements[T] - 1))
                    \/ /\ pc[t] = "set_cas"
                       /\ biasedTableElementValueToObject(
                              loc[t].oldBiasedValue) = getOutOfBoundsElement
             IN  (refused /\ StepOf(t)) =>
                    /\ call[t].op \in {"set", "fill", "copy", "init"}
                    /\ pc'[t] = "done"
                    /\ ret'[t] = Result("outOfBoundsTableAccess", "null", index)
                    /\ elements' = elements
       /\ \A T \in Tables, i \in Slots :
             FillsZeroSlot(T, i) =>
                \E t \in Threads :
                   /\ StepOf(t)
                   /\ loc[t].table = T
                   /\ loc[t].k = i
                   /\ \/ pc[t] = "grow_init" /\ call[t].op = "grow"
                      \/ pc[t] = "clone_copy" /\ call[t].op = "clone"]_vars

\* After a grow to three elements has committed the second page, a set of
\* the slot after the last element found the out-of-bounds sentinel there:
\* it raised, and the slot still holds zero.
C31_Witness ==
    /\ pc[Writer] = "done"
    /\ call[Writer].op = "set"
    /\ call[Writer].index = 3
    /\ ret[Writer] = Result("outOfBoundsTableAccess", "null", 3)
    /\ numElements[1] = 3
    /\ ~Faults(1, 3)
    /\ elements[1][3] = 0

(***************************************************************************)
(* The null pointer as a slot value.                                       *)
(***************************************************************************)
\* C32: no slot of a table holds a word that decodes to the null pointer.
\* It does not hold: Runtime::growTable hands its initialElement to
\* growTableImpl as it is, and a null one is biased and stored in the new
\* slots.
C32_NoSlotDecodesToNull ==
    \A T \in Tables, i \in Slots :
       tableState[T] = "alive" =>
          biasedTableElementValueToObject(elements[T][i]) # "null"

(***************************************************************************)
(* SpecSegment: one thread runs table.init with every offset and count,    *)
(* and both threads run elem.drop on the segment.                          *)
(***************************************************************************)
NextSegment ==
    \/ \E destIndex \in Indices, sourceIndex \in 0 .. (Len(ElemVector) + 1),
          numElems \in 0 .. MaxDelta :
          TableInitObserved(Host, destIndex, sourceIndex, numElems, 1, 0)
    \/ InitCapture(Host)
    \/ InitElem(Host)
    \/ SetLoad(Host)
    \/ SetCompareExchange(Host)
    \/ \E t \in Threads :
          \/ ElemDropObserved(t, 0)
          \/ DropReset(t)
          \/ Return(t)

SpecSegment == InitInit /\ [][NextSegment]_vars

\* Thread t is at the test table.init and elem.drop make of the segment
\* under elemSegmentsMutex, and takes the step.
TestsSegment(t) ==
    /\ pc[t] \in {"init_locked", "drop_locked"}
    /\ pc'[t] # pc[t]

\* C33: a dropped segment stays dropped; an elem.drop or a table.init that
\* finds the segment dropped raises InvalidArgument and changes neither the
\* segments nor any table; an elem.drop that finds it set drops it and
\* returns normally, so that of the elem.drops of two threads on a set
\* segment exactly one succeeds.
C33_DroppedSegmentStaysDropped ==
    [][/\ \A s \in ElemSegmentIndices :
             elemSegments[s] = <<>> => elemSegments'[s] = <<>>
       /\ \A t \in Threads :
             TestsSegment(t) =>
                LET s == call[t].elemSegmentIndex
                IN  IF elemSegments[s] = <<>>
                    THEN /\ pc'[t] = "done"
                         /\ ret'[t] = Result("invalidArgument", "null", 0)
                         /\ elemSegments' = elemSegments
                         /\ elements' = elements
                         /\ numElements' = numElements
                    ELSE /\ ret'[t].kind # "invalidArgument"
                         /\ pc[t] = "drop_locked" =>
                               /\ pc'[t] = "done"
                               /\ ret'[t] = Result("ok", "null", 0)
                               /\ elemSegments'[s] = <<>>
       /\ \A t, u \in Threads :
             /\ t # u
             /\ pc'[t] = "done" /\ call'[t].op = "drop"
             /\ pc'[u] = "done" /\ call'[u].op = "drop"
             => ~(ret'[t].kind = "ok" /\ ret'[u].kind = "ok")]_vars

\* Both threads have run elem.drop on the segment that was set when the
\* first of them began: one has returned normally, the other has raised
\* InvalidArgument, and the segment is dropped.
C33_Witness ==
    /\ pc[Host] = "done" /\ call[Host].op = "drop"
    /\ pc["t2"] = "done" /\ call["t2"].op = "drop"
    /\ pre["t2"].elemSegments[0] # <<>>
    /\ pre[Host].elemSegments[0] = <<>>
    /\ ret["t2"].kind = "ok"
    /\ ret[Host].kind = "invalidArgument"
    /\ elemSegments[0] = <<>>

\* The slots a table.init of thread t is to write.
InitDestination(t) ==
    {call[t].destOffset + k : k \in 0 .. (call[t].numElements - 1)}

\* C34: a table.init on a set segment whose source range lies in the
\* segment and whose destination range lies in the table returns normally
\* having written the decoded elements of the source range to the
\* destination slots in ascending order, null entries as the uninitialized
\* sentinel, and no other slot is modified; with a count of zero it writes
\* nothing and raises nothing, whatever the two offsets are.
C34_InitWritesSegmentInOrder ==
    /\ InitFinished(Host) /\ ~InitExceedsSegment(Host)
       /\ call[Host].destOffset + call[Host].numElements <= numElements[1]
       => /\ ret[Host] = Result("ok", "null", 0)
          /\ writes[Host] = InitWrites(Host, call[Host].numElements)
          /\ \A k \in 1 .. call[Host].numElements :
                elements[1][call[Host].destOffset + k - 1] =
                   writes[Host][k][3]
          /\ \A T \in Tables, i \in Slots :
                ~(T = 1 /\ i \in InitDestination(Host)) =>
                   elements[T][i] = pre[Host].elements[T][i]
          /\ numElements = pre[Host].numElements
    /\ InitFinished(Host) /\ call[Host].numElements = 0
       => /\ ret[Host] = Result("ok", "null", 0)
          /\ writes[Host] = <<>>
          /\ elements = pre[Host].elements

\* table.init(dest = 0, src = 0, n = 2) has returned normally: slot 0
\* holds the function of the first entry and slot 1 the uninitialized
\* sentinel of the null entry, and slot 2 is as it was.
C34_Witness ==
    /\ InitFinished(Host)
    /\ call[Host].destOffset = 0
    /\ call[Host].sourceOffset = 0
    /\ call[Host].numElements = 2
    /\ ret[Host].kind = "ok"
    /\ elements[1][0] = objectToBiasedTableElementValue("F2")
    /\ elements[1][1] = objectToBiasedTableElementValue(getUninitializedElement)
    /\ elements[1][0] # pre[Host].elements[1][0]
    /\ elements[1][2] = pre[Host].elements[1][2]

\* table.init with a count of zero, a destination offset past the
\* reservation and a source offset past the segment has returned normally.
C34_WitnessOfZero ==
    /\ InitFinished(Host)
    /\ call[Host].numElements = 0
    /\ call[Host].destOffset = ReservedElems
    /\ call[Host].sourceOffset = Len(ElemVector) + 1
    /\ ret[Host].kind = "ok"

(***************************************************************************)
(* Releases of the reservation.                                            *)
(***************************************************************************)
\* C35: freeVirtualPages is called only with a base that a successful
\* allocateVirtualPages returned, and at most once for it; no release is
\* issued for the null base of a table whose reservation failed.  It does
\* not hold: createTableImpl sets numReservedBytes before it tests the
\* base, and the destructor it then runs releases whenever numReservedBytes
\* is positive.
C35_ReleaseOnlyOfReservedBase ==
    [][\A T \in Tables :
          reservation'[T] # reservation[T] =>
             \/ reservation[T] = "null" /\ reservation'[T] = "reserved"
             \/ reservation[T] = "reserved" /\ reservation'[T] = "released"]_vars

(***************************************************************************)
(* A set racing with a grow.                                               *)
(***************************************************************************)
\* The set of slot i of table T by thread u has returned normally.
SetReturned(u, T, i) ==
    /\ pc[u] = "done"
    /\ call[u].op = "set"
    /\ call[u].table = T
    /\ call[u].index = i
    /\ ret[u].kind = "ok"

\* Thread t is in the initialization loop of a grow of table T.
GrowInitializing(t, T) ==
    /\ pc[t] = "grow_init"
    /\ call[t].op = "grow"
    /\ loc[t].table = T

\* C36: a set that races with a grow is not lost.  Once a set of slot i has
\* returned normally, every grow of the table that is in its
\* initialization loop has passed slot i, and slot i is below the
\* published count or in the part a grow in progress has initialized; and
\* every store of the initialization loop is to a slot that holds zero, at
\* or above the published count, which no set has written.
C36_SetIsNotOverwrittenByGrow ==
    /\ [](\A u \in Threads, T \in Tables, i \in Slots :
            SetReturned(u, T, i) =>
               /\ \A t \in Threads : GrowInitializing(t, T) => i < loc[t].k
               /\ \/ i < numElements[T]
                  \/ \E t \in Threads :
                        /\ GrowInitializing(t, T)
                        /\ loc[t].oldNumElements <= i)
    /\ [][\A t \in Threads, T \in Tables :
            GrowInitializing(t, T) /\ loc'[t].k # loc[t].k =>
               LET i == loc[t].k
               IN  /\ elements[T][i] = 0
                   /\ i >= numElements[T]
                   /\ \A u \in Threads : ~SetReturned(u, T, i)
                   /\ \A j \in Slots \ {i} : elements'[T][j] = elements[T][j]]_vars

\* While the grow of one thread by two elements has initialized slot 0 and
\* not yet slot 1, with the count still zero, the set of slot 0 by the
\* other thread has returned normally and slot 0 holds the value it wrote.
C36_Witness ==
    \E t, u \in Threads :
       /\ GrowInitializing(t, 1)
       /\ loc[t].oldNumElements = 0
       /\ loc[t].n = 2
       /\ loc[t].k = 1
       /\ numElements[1] = 0
       /\ SetReturned(u, 1, 0)
       /\ call[u].newValue = "F1"
       /\ elements[1][0] = objectToBiasedTableElementValue("F1")
       /\ elements[1][1] = 0

(***************************************************************************)
(* SpecLocks: two threads create, grow, clone and delete tables, look up   *)
(* addresses, and run table.init and elem.drop.                            *)
(***************************************************************************)
\* The steps of thread t.
LocksStep(t) ==
    \/ CreateTable(t, [min |-> 1, max |-> 1], "null", FALSE)
    \/ CreateAdd(t)
    \/ \E T \in Tables : CloneTable(t, T, 2)
    \/ CloneCreate(t)
    \/ CloneCopy(t)
    \/ CloneUnlock(t)
    \/ CloneInsert(t)
    \/ \E T \in Tables : GrowTable(t, "growTable", T, 1, "F1")
    \/ GrowQuota(t)
    \/ GrowLock(t)
    \/ GrowCheck(t)
    \/ GrowInitialize(t)
    \/ GrowPublish(t)
    \/ \E T \in Tables : DeleteTable(t, T)
    \/ DtorCompartment(t)
    \/ TablesLock(t)
    \/ CreateRegister(t)
    \/ DtorRegistry(t)
    \/ DtorFree(t)
    \/ DtorQuota(t)
    \/ IsAddressOwnedByTable(t, BaseAddress(1))
    \/ IsAddressOwnedByTableScan(t)
    \/ \E T \in Tables : TableInit(t, 0, 0, 1, T, 0)
    \/ InitCapture(t)
    \/ InitElem(t)
    \/ SetLoad(t)
    \/ SetCompareExchange(t)
    \/ ElemDrop(t, 0)
    \/ DropReset(t)
    \/ Return(t)

NextLocks == \E t \in Threads : LocksStep(t)

SpecLocks == InitTables(<<>>, 0) /\ [][NextLocks]_vars

\* Thread t is at the acquisition of a mutex that thread u holds.
WaitsFor(t, u) ==
    \/ /\ pc[t] \in {"create_lock", "dtor_registry", "owned_lock"}
       /\ tablesMutex = u
    \/ /\ pc[t] = "grow_lock"
       /\ resizingMutex[loc[t].table] = u
    \/ /\ pc[t] = "clone_lock"
       /\ resizingMutex[call[t].table] = u
    \/ /\ pc[t] = "create_add"
       /\ compartmentMutex[tableCompartment[loc[t].table]] = u
    \/ /\ pc[t] = "clone_insert"
       /\ compartmentMutex[call[t].newCompartment] = u

\* Thread t is in an operation.
InOperation(t) == pc[t] \notin {"idle", "done"}

\* Thread t is at the "new Table" of cloneTable and the model has no table
\* object left to give.
OutOfTables(t) ==
    pc[t] = "clone_lock" /\ \A T \in Tables : tableState[T] # "none"

\* C37: no thread waits for a mutex it holds itself, no two threads wait
\* for a mutex held by the other, and a thread in an operation that waits
\* for no mutex held by a thread can take its next step, so that the
\* threads never wait in a cycle; and a thread whose operation has
\* returned or raised, table.init and elem.drop with InvalidArgument
\* included, holds no mutex.
C37_LocksAreDeadlockFree ==
    \A t \in Threads :
       /\ ~WaitsFor(t, t)
       /\ \A u \in Threads \ {t} : ~(WaitsFor(t, u) /\ WaitsFor(u, t))
       /\ (InOperation(t) /\ ~OutOfTables(t)
             /\ \A u \in Threads : ~WaitsFor(t, u))
          => ENABLED LocksStep(t)
       /\ ~InOperation(t) => HoldsNoMutex(t)

\* A createTable that found no id in the compartment's map is in the
\* destructor, inside the scope of its lock on the compartment, and holds
\* tablesMutex as well; the createTable of the other thread waits for the
\* compartment's mutex; and in an earlier call that other thread's
\* elem.drop had dropped the segment.
C37_Witness ==
    \E t \in Threads, u \in Threads :
       /\ pc[t] = "dtor_erase"
       /\ call[t].op = "create"
       /\ compartmentMutex[1] = t
       /\ tablesMutex = t
       /\ pc[u] = "create_add"
       /\ WaitsFor(u, t)
       /\ elemSegments[0] = <<>>

(***************************************************************************)
(* A descending table.copy that raises.                                    *)
(***************************************************************************)
\* Thread t has finished a table.copy to higher indices, which the loop
\* makes in descending order.
DescendingCopyFinished(t) ==
    /\ pc[t] = "done"
    /\ call[t].op = "copy"
    /\ call[t].numElements > 0
    /\ call[t].sourceOffset < call[t].destOffset

\* A range of the table.copy of thread t extends past its table's count.
CopyExceedsTable(t) ==
    \/ call[t].sourceOffset + call[t].numElements
          > numElements[call[t].sourceTable]
    \/ call[t].destOffset + call[t].numElements
          > numElements[call[t].destTable]

\* C38: with no other operation running, a table.copy to higher indices
\* whose source or destination range extends past its table's count raises
\* OutOfBoundsTableAccess in the first turn of its loop, at the highest
\* index of the range, and has modified no slot of either table; one that
\* raises has a range that extends past the count.
C38_DescendingCopyRaisesUnmodified ==
    /\ DescendingCopyFinished(Host) /\ CopyExceedsTable(Host)
       => /\ ret[Host].kind = "outOfBoundsTableAccess"
          /\ ret[Host].num \in
                {call[Host].sourceOffset + call[Host].numElements - 1,
                 call[Host].destOffset + call[Host].numElements - 1}
          /\ loc[Host].k = 0
          /\ writes[Host] = <<>>
          /\ elements = pre[Host].elements
          /\ numElements = pre[Host].numElements
    /\ DescendingCopyFinished(Host) /\ ret[Host].kind # "ok"
       => CopyExceedsTable(Host)

\* table.copy(dest = 1, src = 0, n = 3) within the table of three elements
\* has raised at slot 3, the highest index of the destination range, and
\* the table is as it was, its first two elements being different.
C38_Witness ==
    /\ DescendingCopyFinished(Host)
    /\ call[Host].sourceTable = 1
    /\ call[Host].destTable = 1
    /\ call[Host].sourceOffset = 0
    /\ call[Host].destOffset = 1
    /\ call[Host].numElements = maxTableElems
    /\ ret[Host] = Result("outOfBoundsTableAccess", "null", maxTableElems)
    /\ elements = pre[Host].elements
    /\ elements[1][0] # elements[1][1]

(***************************************************************************)
(* DenseStaticIntSet<Index, maxIndexPlusOne>.                              *)
(***************************************************************************)
\* The width of the Index type, and the values it has.
IndexBits == 2
IndexMod == 2 ^ IndexBits

\* (Index)value: the conversion to the unsigned index type.
castToIndex(value) == value % IndexMod

\* sizeof(Element) * 8, the bits of a word of the set, and the words.
indicesPerElement == 2
ElementMod == 2 ^ indicesPerElement

\* The template instances: every range whose indices the index type holds.
MaxIndexPlusOnes == 1 .. IndexMod

\* The enumerator numElements: the words of a set of maxIndexPlusOne indices.
intSetNumElements(maxIndexPlusOne) ==
    (maxIndexPlusOne + indicesPerElement - 1) \div indicesPerElement

\* One bit of a | b, a & b and a ^ b.
bitOf(operator, x, y) ==
    CASE operator = "|" -> IF x + y > 0 THEN 1 ELSE 0
      [] operator = "&" -> x * y
      [] operator = "^" -> (x + y) % 2

\* a | b, a & b and a ^ b on words of width bits.
RECURSIVE bitwise(_, _, _, _)
bitwise(operator, a, b, width) ==
    IF width = 0
    THEN 0
    ELSE bitOf(operator, a % 2, b % 2)
           + 2 * bitwise(operator, a \div 2, b \div 2, width - 1)

\* ~a on a word.
bitNot(a) == ElementMod - 1 - a

\* Element(1) << shift.
elementMask(shift) == (2 ^ shift) % ElementMod

\* countTrailingZeroes of a word that is not zero: the index of its lowest
\* set bit.
RECURSIVE countTrailingZeroes(_)
countTrailingZeroes(word) ==
    IF word % 2 = 1 THEN 0 ELSE 1 + countTrailingZeroes(word \div 2)

\* DenseStaticIntSet(): every word zero.
defaultIntSet(maxIndexPlusOne) ==
    [elementIndex \in 0 .. (intSetNumElements(maxIndexPlusOne) - 1) |-> 0]

contains(set, index) ==
    bitwise("&", set[index \div indicesPerElement],
            elementMask(index % indicesPerElement), indicesPerElement) # 0

\* The loop of isEmpty: the words below elementIndex or-ed together.
RECURSIVE combinedElements(_, _)
combinedElements(set, elementIndex) ==
    IF elementIndex = 0
    THEN 0
    ELSE bitwise("|", combinedElements(set, elementIndex - 1),
                 set[elementIndex - 1], indicesPerElement)

isEmpty(set) == combinedElements(set, Cardinality(DOMAIN set)) = 0

\* The loop of getSmallestMember from word elementIndex on.
RECURSIVE smallestMemberFrom(_, _, _)
smallestMemberFrom(set, elementIndex, maxIndexPlusOne) ==
    IF elementIndex >= Cardinality(DOMAIN set)
    THEN castToIndex(maxIndexPlusOne)
    ELSE IF set[elementIndex] # 0
    THEN castToIndex(elementIndex * indicesPerElement
                        + countTrailingZeroes(set[elementIndex]))
    ELSE smallestMemberFrom(set, elementIndex + 1, maxIndexPlusOne)

getSmallestMember(set, maxIndexPlusOne) ==
    smallestMemberFrom(set, 0, maxIndexPlusOne)

\* The loop of getSmallestNonMember from word elementIndex on: the first
\* word with a clear bit decides, and a result at or past maxIndexPlusOne
\* leaves the loop.
RECURSIVE smallestNonMemberFrom(_, _, _)
smallestNonMemberFrom(set, elementIndex, maxIndexPlusOne) ==
    IF elementIndex >= Cardinality(DOMAIN set)
    THEN castToIndex(maxIndexPlusOne)
    ELSE IF bitNot(set[elementIndex]) # 0
    THEN LET result == castToIndex(
                          elementIndex * indicesPerElement
                             + countTrailingZeroes(bitNot(set[elementIndex])))
         IN  IF result >= maxIndexPlusOne
             THEN castToIndex(maxIndexPlusOne)
             ELSE result
    ELSE smallestNonMemberFrom(set, elementIndex + 1, maxIndexPlusOne)

getSmallestNonMember(set, maxIndexPlusOne) ==
    smallestNonMemberFrom(set, 0, maxIndexPlusOne)

\* add, and the words remove leaves; remove returns contains.
add(set, index) ==
    [set EXCEPT ![index \div indicesPerElement] =
       bitwise("|", @, elementMask(index % indicesPerElement),
               indicesPerElement)]

remove(set, index) ==
    [set EXCEPT ![index \div indicesPerElement] =
       bitwise("&", @, bitNot(elementMask(index % indicesPerElement)),
               indicesPerElement)]

\* operator~, and operator|, operator& and operator^: word by word.
intSetNot(set) == [elementIndex \in DOMAIN set |-> bitNot(set[elementIndex])]

intSetCombine(operator, left, right) ==
    [elementIndex \in DOMAIN left |->
       bitwise(operator, left[elementIndex], right[elementIndex],
               indicesPerElement)]

\* operator==: memcmp of the words is zero.
intSetEqual(left, right) ==
    \A elementIndex \in DOMAIN left : left[elementIndex] = right[elementIndex]

(***************************************************************************)
(* SpecIntSet: two sets of one template instance, changed by add,          *)
(* addRange, remove and the operators, next to the sets of integers they   *)
(* stand for.                                                              *)
(***************************************************************************)
IntSetNames == {"left", "right"}

\* The variables of the tables, which the utility code leaves alone.
tableFrame == <<tableVars, segVars, numElements, elements, committedPages, resizingMutex, quotaCurrent, pc, call, loc, ret, pre, writes, latest, prev>>

InitIntSet ==
    /\ InitTableState(<<>>, 0)
    /\ parse = NoParse
    /\ \E maxIndexPlusOne \in MaxIndexPlusOnes :
          intSet = [maxIndexPlusOne |-> maxIndexPlusOne,
                    sets |-> [name \in IntSetNames |->
                                defaultIntSet(maxIndexPlusOne)],
                    members |-> [name \in IntSetNames |-> {}],
                    at |-> "idle", name |-> "left", index |-> 0,
                    rangeMin |-> 0, rangeMax |-> 0,
                    returned |-> FALSE, expected |-> FALSE]

IntSetAdd(name, index) ==
    /\ intSet.at = "idle"
    /\ index < intSet.maxIndexPlusOne
    /\ intSet' = [intSet EXCEPT
                    !.sets[name] = add(@, index),
                    !.members[name] = @ \cup {index}]
    /\ UNCHANGED <<tableFrame, parse>>

\* addRange begins: for(Index index = rangeMin; ...
IntSetAddRange(name, rangeMin, rangeMax) ==
    /\ intSet.at = "idle"
    /\ rangeMin <= rangeMax
    /\ rangeMax < intSet.maxIndexPlusOne
    /\ intSet' = [intSet EXCEPT !.at = "addRange", !.name = name,
                                !.index = rangeMin, !.rangeMin = rangeMin,
                                !.rangeMax = rangeMax]
    /\ UNCHANGED <<tableFrame, parse>>

\* One turn of the loop of addRange: index <= rangeMax, add(index), ++index
\* in the index type; or the end of the loop.
IntSetAddRangeTurn ==
    /\ intSet.at = "addRange"
    /\ intSet' =
          IF intSet.index <= intSet.rangeMax
          THEN [intSet EXCEPT !.sets[intSet.name] = add(@, intSet.index),
                              !.index = castToIndex(@ + 1)]
          ELSE [intSet EXCEPT !.at = "idle",
                              !.members[intSet.name] =
                                 @ \cup (intSet.rangeMin .. intSet.rangeMax)]
    /\ UNCHANGED <<tableFrame, parse>>

IntSetRemove(name, index) ==
    /\ intSet.at = "idle"
    /\ index < intSet.maxIndexPlusOne
    /\ intSet' = [intSet EXCEPT
                    !.sets[name] = remove(@, index),
                    !.members[name] = @ \ {index},
                    !.returned = contains(intSet.sets[name], index),
                    !.expected = index \in intSet.members[name]]
    /\ UNCHANGED <<tableFrame, parse>>

\* set = ~set
IntSetComplement(name) ==
    /\ intSet.at = "idle"
    /\ intSet' = [intSet EXCEPT
                    !.sets[name] = intSetNot(@),
                    !.members[name] = (0 .. (intSet.maxIndexPlusOne - 1)) \ @]
    /\ UNCHANGED <<tableFrame, parse>>

\* left = left | right, left & right or left ^ right
IntSetCombine(operator) ==
    /\ intSet.at = "idle"
    /\ LET left == intSet.members["left"]
           right == intSet.members["right"]
       IN  intSet' = [intSet EXCEPT
                        !.sets["left"] =
                           intSetCombine(operator, @, intSet.sets["right"]),
                        !.members["left"] =
                           CASE operator = "|" -> left \cup right
                             [] operator = "&" -> left \cap right
                             [] operator = "^" ->
                                  (left \ right) \cup (right \ left)]
    /\ UNCHANGED <<tableFrame, parse>>

NextIntSet ==
    \/ \E name \in IntSetNames, index \in 0 .. (IndexMod - 1) :
          IntSetAdd(name, index)
    \/ \E name \in IntSetNames, rangeMin, rangeMax \in 0 .. (IndexMod - 1) :
          IntSetAddRange(name, rangeMin, rangeMax)
    \/ IntSetAddRangeTurn
    \/ \E name \in IntSetNames, index \in 0 .. (IndexMod - 1) :
          IntSetRemove(name, index)
    \/ \E name \in IntSetNames : IntSetComplement(name)
    \/ \E operator \in {"|", "&", "^"} : IntSetCombine(operator)

SpecIntSet == InitIntSet /\ [][NextIntSet]_vars

\* The least of a set of numbers that is not empty.
Least(S) == CHOOSE x \in S : \A y \in S : x <= y

\* The queries on the set called name agree with the integers it stands for.
AgreesWithMembers(name) ==
    LET set == intSet.sets[name]
        members == intSet.members[name]
        range == 0 .. (intSet.maxIndexPlusOne - 1)
    IN  /\ \A index \in range : contains(set, index) <=> index \in members
        /\ isEmpty(set) <=> members = {}
        /\ getSmallestMember(set, intSet.maxIndexPlusOne) =
              IF members = {} THEN intSet.maxIndexPlusOne ELSE Least(members)
        /\ getSmallestNonMember(set, intSet.maxIndexPlusOne) =
              IF members = range THEN intSet.maxIndexPlusOne
              ELSE Least(range \ members)
        /\ intSetEqual(set, defaultIntSet(intSet.maxIndexPlusOne))
              <=> members = {}

\* C39: for every range, after any sequence of add, addRange, remove and
\* the operators ~, |, & and ^, contains, isEmpty, getSmallestMember and
\* getSmallestNonMember answer as the set of integers does, remove has
\* returned whether the index was a member, and == holds of two sets
\* exactly when they stand for the same integers, so that the complement
\* of the full set is empty and equal to a default-constructed set.  It
\* does not hold: operator~ also sets the bits of the last word that stand
\* for no index.
C39_BehavesAsSubset ==
    intSet.at = "idle" =>
       /\ \A name \in IntSetNames : AgreesWithMembers(name)
       /\ intSetEqual(intSet.sets["left"], intSet.sets["right"])
             <=> intSet.members["left"] = intSet.members["right"]
       /\ intSet.returned = intSet.expected

\* The same for the instances whose range the index type can hold as a
\* value.  It does not hold either: the complement of the full set of one
\* index is not empty.
IntSetRangeIsAnIndex ==
    intSet.maxIndexPlusOne < IndexMod => C39_BehavesAsSubset

\* The same for the instances whose range fills its words and is below the
\* largest value of the index type.
IntSetRangeFillsWords ==
    (/\ intSet.maxIndexPlusOne % indicesPerElement = 0
     /\ intSet.maxIndexPlusOne < IndexMod)
    => C39_BehavesAsSubset

\* The same without the comparisons of whole sets and isEmpty, for the
\* ranges below the largest value of the index type.
IntSetMembersAgree ==
    (intSet.at = "idle" /\ intSet.maxIndexPlusOne < IndexMod) =>
       /\ \A name \in IntSetNames :
             LET set == intSet.sets[name]
                 members == intSet.members[name]
                 range == 0 .. (intSet.maxIndexPlusOne - 1)
             IN  /\ \A index \in range :
                       contains(set, index) <=> index \in members
                 /\ getSmallestNonMember(set, intSet.maxIndexPlusOne) =
                       IF members = range THEN intSet.maxIndexPlusOne
                       ELSE Least(range \ members)
       /\ intSet.returned = intSet.expected

(***************************************************************************)
(* parseDecimalUnsignedInt and parseHexUnsignedInt.                        *)
(***************************************************************************)
\* The width of U64, and the two widths of the integer types a literal is
\* parsed for: the widest is U64 itself.  The width is one for which, as
\* for 64, the decimal digits of 2 ^ U64Bits have a zero after the first:
\* whether the accumulation can wrap around depends on it.
U64Bits == 10
U64Mod == 2 ^ U64Bits
IntTypeBits == {5, U64Bits}

\* The maxValue that tryParseInt passes: maxUnsignedValue for a literal
\* without a minus sign, -U64(minSignedValue) for one with it, which is zero
\* when the type is unsigned.
ParseMaxValues ==
    {2 ^ bits - 1 : bits \in IntTypeBits}
       \cup {2 ^ (bits - 1) : bits \in IntTypeBits} \cup {0}

\* The digits of a literal of either kind.
Radixes == {10, 16}
MaxDecimalDigits == 4
MaxHexDigits == 3
MaxDigits(radix) == IF radix = 10 THEN MaxDecimalDigits ELSE MaxHexDigits

\* The test made before a digit is added, with the subtraction in U64:
\* result > (maxValue - digit) / radix.
tooLarge(result, maxValue, digit, radix) ==
    result > ((maxValue - digit) % U64Mod) \div radix

\* result * radix + digit in U64.
accumulate(result, digit, radix) == (result * radix + digit) % U64Mod

(***************************************************************************)
(* SpecParse: one call of either function on every literal of up to        *)
(* MaxDigits(radix) digits, with every maxValue.                           *)
(***************************************************************************)
InitParse ==
    /\ InitTableState(<<>>, 0)
    /\ intSet = NoIntSet
    /\ \E radix \in Radixes, maxValue \in ParseMaxValues :
          parse = [radix |-> radix, maxValue |-> maxValue, result |-> 0,
                   value |-> 0, digits |-> 0, underscores |-> 0,
                   at |-> "digits", error |-> FALSE, asserted |-> TRUE]

\* The next character is an underscore: it is skipped.
ParseUnderscore ==
    /\ parse.at = "digits"
    /\ parse.underscores = 0
    /\ parse' = [parse EXCEPT !.underscores = 1]
    /\ UNCHANGED <<tableFrame, intSet>>

\* The next character is a digit: either the literal is found too large,
\* the error is reported, the rest of the digits is skipped and maxValue is
\* the result, or the digit is added to the result.  The value of the
\* digits read is kept as history.
ParseDigit(digit) ==
    /\ parse.at = "digits"
    /\ parse.digits < MaxDigits(parse.radix)
    /\ digit < parse.radix
    /\ parse' =
          IF tooLarge(parse.result, parse.maxValue, digit, parse.radix)
          THEN [parse EXCEPT !.error = TRUE,
                             !.result = parse.maxValue,
                             !.value = @ * parse.radix + digit,
                             !.digits = @ + 1,
                             !.at = "returned"]
          ELSE [parse EXCEPT !.asserted =
                                @ /\ accumulate(parse.result, digit,
                                                parse.radix) >= parse.result,
                             !.result = accumulate(@, digit, parse.radix),
                             !.value = @ * parse.radix + digit,
                             !.digits = @ + 1]
    /\ UNCHANGED <<tableFrame, intSet>>

\* The next character ends the literal: the result is returned.
ParseReturn ==
    /\ parse.at = "digits"
    /\ parse.digits > 0
    /\ parse' = [parse EXCEPT !.at = "returned"]
    /\ UNCHANGED <<tableFrame, intSet>>

NextParse ==
    \/ ParseUnderscore
    \/ \E digit \in 0 .. 15 : ParseDigit(digit)
    \/ ParseReturn

SpecParse == InitParse /\ [][NextParse]_vars

\* C40: the value returned is never greater than maxValue; it is the
\* value of the digits when that is at most maxValue, and otherwise the
\* error is reported and maxValue returned; and the asserts on the
\* accumulation hold, which never leaves U64.  It does not hold: with
\* maxValue zero, the maxValue of a literal with a minus sign parsed for an
\* unsigned type, maxValue - digit wraps around for every digit but zero
\* and the test lets a first digit through, which is returned with no
\* error.  The asserts themselves hold (ParseAssertsHold).
C40_ParsedValueWithinMax ==
    /\ parse.asserted
    /\ parse.at = "digits" => parse.result = parse.value
    /\ parse.at = "returned" =>
          /\ parse.result <= parse.maxValue
          /\ IF parse.value <= parse.maxValue
             THEN parse.result = parse.value /\ ~parse.error
             ELSE parse.result = parse.maxValue /\ parse.error

\* The same for the literals without a minus sign and for those parsed for
\* a signed type, whose maxValue is not zero.
ParsedValueWithinPositiveMax ==
    parse.maxValue > 0 => C40_ParsedValueWithinMax

\* The asserts on the accumulation hold for every maxValue, zero included.
ParseAssertsHold == parse.asserted

====
